---- MODULE Spec2Model ----
(***************************************************************************)
(* The chat-session store of src-tauri/src/lib.rs: four commands           *)
(* (save_chat, list_chats, load_chat, delete_chat) over a directory of     *)
(* `<id>.json` files.                                                      *)
(*                                                                         *)
(* Strings are sequences of one-character strings, so that format!, path   *)
(* joining, file_stem/extension, JSON printing and JSON parsing are        *)
(* computed character by character.  A serde_json::Value is a tagged       *)
(* record; a file is the character sequence stored in it plus its          *)
(* creation time; the filesystem is a set of directories and a map from    *)
(* resolved path to file.  `calls` holds the save_chat invocations that     *)
(* are in flight at the same time, each with the position it has reached.  *)
(***************************************************************************)
EXTENDS Integers, Sequences, FiniteSets, TLC

VARIABLES dirs, files, now, env, last, calls

vars == <<dirs, files, now, env, last, calls>>

(***************************************************************************)
(* Bounds                                                                  *)
(***************************************************************************)
\* largest clock reading (unix time in milliseconds)
MaxClock == 2
\* largest number of files the store directory tree holds
MaxFiles == 2
\* largest number of entries of a store directory drawn for listing
MaxEntries == 3

(***************************************************************************)
(* Characters and strings                                                  *)
(***************************************************************************)
\* A string is a sequence of characters.  A byte (of a file name or of a
\* content) that is part of no UTF-8 encoding of a character is an element of
\* its own, named "0x" and its two hexadecimal digits.
\* a byte that is not valid UTF-8 wherever it stands
InvalidByte == "0xFF"

\* The ASCII characters in code-point order: Alphabet[n + 1] is the
\* character with code point n.  A character that cannot be written in a
\* string of this module is named by its code point, "U+" and four or more
\* hexadecimal digits, as is every character beyond ASCII.
Alphabet ==
  << "U+0000", "U+0001", "U+0002", "U+0003", "U+0004", "U+0005", "U+0006",
     "U+0007", "U+0008", "\t", "\n", "U+000B", "\f", "\r", "U+000E", "U+000F",
     "U+0010", "U+0011", "U+0012", "U+0013", "U+0014", "U+0015", "U+0016",
     "U+0017", "U+0018", "U+0019", "U+001A", "U+001B", "U+001C", "U+001D",
     "U+001E", "U+001F",
     " ", "!", "\"", "#", "$", "%", "&", "'", "(", ")", "*", "+", ",", "-",
     ".", "/", "0", "1", "2", "3", "4", "5", "6", "7", "8", "9", ":", ";",
     "<", "=", ">", "?", "@",
     "A", "B", "C", "D", "E", "F", "G", "H", "I", "J", "K", "L", "M", "N",
     "O", "P", "Q", "R", "S", "T", "U", "V", "W", "X", "Y", "Z",
     "[", "\\", "]", "^", "_", "U+0060",
     "a", "b", "c", "d", "e", "f", "g", "h", "i", "j", "k", "l", "m", "n",
     "o", "p", "q", "r", "s", "t", "u", "v", "w", "x", "y", "z",
     "{", "|", "}", "~", "U+007F" >>

AsciiChars == {Alphabet[i] : i \in 1..Len(Alphabet)}

IsAscii(c) == c \in AsciiChars

\* the code point of each ASCII character
AsciiCodePoint ==
  [c \in AsciiChars |-> (CHOOSE i \in 1..Len(Alphabet) : Alphabet[i] = c) - 1]

\* the NUL character
Nul == "U+0000"

\* the control characters U+0000 .. U+001F
ControlChars == {Alphabet[i] : i \in 1..32}

IsControl(c) == c \in ControlChars

HexUpper ==
  <<"0", "1", "2", "3", "4", "5", "6", "7", "8", "9",
    "A", "B", "C", "D", "E", "F">>

HexLower ==
  <<"0", "1", "2", "3", "4", "5", "6", "7", "8", "9",
    "a", "b", "c", "d", "e", "f">>

IsHexDigit(c) == \E d \in 1..16 : HexUpper[d] = c \/ HexLower[d] = c

HexDigitValue(c) ==
  (CHOOSE d \in 1..16 : HexUpper[d] = c \/ HexLower[d] = c) - 1

\* the hexadecimal digits of n, at least `width` of them, as one name
RECURSIVE HexName(_, _)
HexName(n, width) ==
  IF n < 16 /\ width <= 1 THEN HexUpper[n + 1]
  ELSE HexName(n \div 16, width - 1) \o HexUpper[(n % 16) + 1]

\* char::from_u32: the character with code point n
CharOf(n) == IF n < 128 THEN Alphabet[n + 1] ELSE "U+" \o HexName(n, 4)

\* the number a name's hexadecimal digits from position i on stand for
RECURSIVE NameValue(_, _, _)
NameValue(name, i, acc) ==
  IF i > Len(name) THEN acc
  ELSE NameValue(name, i + 1,
                 16 * acc + HexDigitValue(Head(SubSeq(name, i, i))))

\* the code point of a character
CodePoint(c) == IF IsAscii(c) THEN AsciiCodePoint[c] ELSE NameValue(c, 3, 0)

\* lexicographic order on strings: a < b
RECURSIVE StrLess(_, _)
StrLess(a, b) ==
  IF b = <<>> THEN FALSE
  ELSE IF a = <<>> THEN TRUE
  ELSE IF a[1] # b[1] THEN CodePoint(a[1]) < CodePoint(b[1])
  ELSE StrLess(Tail(a), Tail(b))

DigitChars == <<"0", "1", "2", "3", "4", "5", "6", "7", "8", "9">>

IsDigit(c) == c \in {DigitChars[d] : d \in 1..10}

DigitValue(c) == AsciiCodePoint[c] - AsciiCodePoint["0"]

\* Display of an unsigned integer: its decimal digits
RECURSIVE Decimal(_)
Decimal(n) ==
  IF n < 10 THEN <<DigitChars[n + 1]>>
  ELSE Decimal(n \div 10) \o <<DigitChars[(n % 10) + 1]>>

\* the names of the bytes 0x80 .. 0xFF
ByteNames == [v \in 128..255 |-> "0x" \o HexName(v, 2)]

RawBytes == {ByteNames[v] : v \in 128..255}

IsRawByte(c) == c \in RawBytes

\* the byte with value v: an ASCII character is its own byte
Byte(v) == IF v < 128 THEN Alphabet[v + 1] ELSE ByteNames[v]

\* the value of a byte
ByteValue(b) == IF IsAscii(b) THEN AsciiCodePoint[b] ELSE NameValue(b, 3, 0)

\* char::encode_utf8: the bytes of the character with code point n >= 128
EncodeUtf8(n) ==
  IF n < 2048
  THEN <<Byte(192 + (n \div 64)), Byte(128 + (n % 64))>>
  ELSE IF n < 65536
  THEN <<Byte(224 + (n \div 4096)), Byte(128 + ((n \div 64) % 64)),
         Byte(128 + (n % 64))>>
  ELSE <<Byte(240 + (n \div 262144)), Byte(128 + ((n \div 4096) % 64)),
         Byte(128 + ((n \div 64) % 64)), Byte(128 + (n % 64))>>

\* the bytes of one element of a string
Utf8Bytes(c) ==
  IF IsAscii(c) \/ IsRawByte(c) THEN <<c>> ELSE EncodeUtf8(CodePoint(c))

\* the bytes of the elements lo .. hi of a string
RECURSIVE BytesOf(_, _, _)
BytesOf(s, lo, hi) ==
  IF hi < lo THEN <<>>
  ELSE IF lo = hi THEN Utf8Bytes(s[lo])
  ELSE BytesOf(s, lo, (lo + hi) \div 2)
         \o BytesOf(s, ((lo + hi) \div 2) + 1, hi)

\* str::as_bytes: the bytes of a string
Bytes(s) == BytesOf(s, 1, Len(s))

\* the byte at p is a continuation byte 0x80 .. 0xBF
IsContinuation(b, p) ==
  p <= Len(b) /\ ByteValue(b[p]) >= 128 /\ ByteValue(b[p]) <= 191

\* the six bits a continuation byte carries
Bits(b, p) == ByteValue(b[p]) % 64

\* the code point that the two, three or four bytes from p on stand for
Decoded2(b, p) == 64 * (ByteValue(b[p]) - 192) + Bits(b, p + 1)

Decoded3(b, p) ==
  4096 * (ByteValue(b[p]) - 224) + 64 * Bits(b, p + 1) + Bits(b, p + 2)

Decoded4(b, p) ==
  262144 * (ByteValue(b[p]) - 240) + 4096 * Bits(b, p + 1)
    + 64 * Bits(b, p + 2) + Bits(b, p + 3)

\* the number of bytes of the character whose UTF-8 encoding starts at p, or
\* 0 when none does (core::str::from_utf8: no overlong form, no surrogate,
\* nothing beyond U+10FFFF)
CharLenOf(b, p, v) ==
  IF v < 128 THEN 1
  ELSE IF v >= 194 /\ v <= 223
  THEN IF IsContinuation(b, p + 1) THEN 2 ELSE 0
  ELSE IF v >= 224 /\ v <= 239
  THEN IF /\ IsContinuation(b, p + 1)
          /\ IsContinuation(b, p + 2)
          /\ Decoded3(b, p) >= 2048
          /\ ~(Decoded3(b, p) >= 55296 /\ Decoded3(b, p) <= 57343)
       THEN 3 ELSE 0
  ELSE IF v >= 240 /\ v <= 244
  THEN IF /\ IsContinuation(b, p + 1)
          /\ IsContinuation(b, p + 2)
          /\ IsContinuation(b, p + 3)
          /\ Decoded4(b, p) >= 65536
          /\ Decoded4(b, p) <= 1114111
       THEN 4 ELSE 0
  ELSE 0

CharLenAt(b, p) == CharLenOf(b, p, ByteValue(b[p]))

\* the character whose encoding starts at p
CharAt(b, p) ==
  IF CharLenAt(b, p) = 1 THEN b[p]
  ELSE IF CharLenAt(b, p) = 2 THEN CharOf(Decoded2(b, p))
  ELSE IF CharLenAt(b, p) = 3 THEN CharOf(Decoded3(b, p))
  ELSE CharOf(Decoded4(b, p))

\* the byte at p is a later byte of a character that starts before it
IsInsideChar(b, p) ==
  \E k \in 1..3 : p - k >= 1 /\ CharLenAt(b, p - k) > k

\* what the byte at p contributes to the string: the character that starts
\* there, nothing when it continues a character, else the byte itself
ElementAt(b, p) ==
  IF CharLenAt(b, p) > 0 THEN <<CharAt(b, p)>>
  ELSE IF IsInsideChar(b, p) THEN <<>>
  ELSE <<b[p]>>

\* the string that the bytes lo .. hi contribute
RECURSIVE ElementsOf(_, _, _)
ElementsOf(b, lo, hi) ==
  IF hi < lo THEN <<>>
  ELSE IF lo = hi THEN ElementAt(b, lo)
  ELSE ElementsOf(b, lo, (lo + hi) \div 2)
         \o ElementsOf(b, ((lo + hi) \div 2) + 1, hi)

\* the string of a sequence of bytes: its characters, and the bytes that
\* are part of none
StringOf(b) == ElementsOf(b, 1, Len(b))

HasRawByte(s) == \E i \in 1..Len(s) : IsRawByte(s[i])

\* OsStr::to_str / String::from_utf8: defined only when the bytes are the
\* encoding of characters
IsUtf8(s) == ~HasRawByte(s) \/ ~HasRawByte(StringOf(Bytes(s)))

\* the digits without the zeros at their end
RECURSIVE StripZeros(_)
StripZeros(digits) ==
  IF digits # <<>> /\ digits[Len(digits)] = "0"
  THEN StripZeros(SubSeq(digits, 1, Len(digits) - 1))
  ELSE digits

\* the given digits followed by zeros up to the given length
RECURSIVE PadRight(_, _)
PadRight(digits, len) ==
  IF Len(digits) >= len THEN digits ELSE PadRight(Append(digits, "0"), len)

(***************************************************************************)
(* Natural numbers of any size, on which the arithmetic of u64 and f64 is  *)
(* computed: the sequence of the limbs base 2^15, the least significant    *)
(* first and the most significant not zero (zero is the empty sequence).   *)
(* An operation that carries from limb to limb works on a range of limbs   *)
(* and gives the limbs l of the range and the carry c out of it; a range   *)
(* is split in halves, the carry of the first going into the second.       *)
(***************************************************************************)
Limb(a, i) == IF i <= Len(a) THEN a[i] ELSE 0

Carried(l, c) == [l |-> l, c |-> c]

\* the limbs of a lower range in front of the result of the upper one
Above(low, high) == Carried(low \o high.l, high.c)

\* the highest position in i..j where the limbs of a and b differ, 0 when
\* none does
RECURSIVE TopDiff(_, _, _, _)

TopDiffBelow(top, a, b, i, j) ==
  IF top > 0 THEN top ELSE TopDiff(a, b, i, j)

TopDiff(a, b, i, j) ==
  IF i > j THEN 0
  ELSE IF i = j THEN (IF Limb(a, i) # Limb(b, i) THEN i ELSE 0)
  ELSE TopDiffBelow(TopDiff(a, b, (i + j) \div 2 + 1, j), a, b,
                    i, (i + j) \div 2)

\* the limbs without the zeros above the most significant limb
BigTrim(a) == SubSeq(a, 1, TopDiff(a, <<>>, 1, Len(a)))

RECURSIVE BigOfInt(_)
BigOfInt(n) ==
  IF n = 0 THEN <<>> ELSE <<n % 32768>> \o BigOfInt(n \div 32768)

LessAt(a, b, i) == i > 0 /\ a[i] < b[i]

BigLess(a, b) ==
  IF Len(a) # Len(b) THEN Len(a) < Len(b)
  ELSE LessAt(a, b, TopDiff(a, b, 1, Len(a)))

\* the carry behind the most significant limb
WithCarry(x) == IF x.c = 0 THEN x.l ELSE Append(x.l, x.c)

\* a + b: the limbs i..j with the carry c
RECURSIVE BigAddRange(_, _, _, _, _)

BigAddAbove(low, a, b, i, j) == Above(low.l, BigAddRange(a, b, i, j, low.c))

BigAddRange(a, b, i, j, c) ==
  IF i > j THEN Carried(<<>>, c)
  ELSE IF i = j
  THEN Carried(<<(Limb(a, i) + Limb(b, i) + c) % 32768>>,
               (Limb(a, i) + Limb(b, i) + c) \div 32768)
  ELSE BigAddAbove(BigAddRange(a, b, i, (i + j) \div 2, c), a, b,
                   (i + j) \div 2 + 1, j)

BigAdd(a, b) ==
  WithCarry(BigAddRange(a, b, 1, IF Len(a) > Len(b) THEN Len(a) ELSE Len(b),
                        0))

\* a - b for a >= b: the limbs i..j with the borrow c
RECURSIVE BigSubRange(_, _, _, _, _)

BigSubAbove(low, a, b, i, j) == Above(low.l, BigSubRange(a, b, i, j, low.c))

BigSubRange(a, b, i, j, c) ==
  IF i > j THEN Carried(<<>>, c)
  ELSE IF i = j
  THEN (IF a[i] - Limb(b, i) - c < 0
        THEN Carried(<<a[i] - Limb(b, i) - c + 32768>>, 1)
        ELSE Carried(<<a[i] - Limb(b, i) - c>>, 0))
  ELSE BigSubAbove(BigSubRange(a, b, i, (i + j) \div 2, c), a, b,
                   (i + j) \div 2 + 1, j)

BigSub(a, b) == BigTrim(BigSubRange(a, b, 1, Len(a), 0).l)

\* a * k for 0 < k < 2^15: the limbs i..j with the carry c
RECURSIVE BigTimesRange(_, _, _, _, _)

BigTimesAbove(low, a, k, i, j) ==
  Above(low.l, BigTimesRange(a, k, i, j, low.c))

BigTimesRange(a, k, i, j, c) ==
  IF i > j THEN Carried(<<>>, c)
  ELSE IF i = j
  THEN Carried(<<(a[i] * k + c) % 32768>>, (a[i] * k + c) \div 32768)
  ELSE BigTimesAbove(BigTimesRange(a, k, i, (i + j) \div 2, c), a, k,
                     (i + j) \div 2 + 1, j)

BigTimes(a, k) ==
  IF k = 0 THEN <<>> ELSE WithCarry(BigTimesRange(a, k, 1, Len(a), 0))

\* a * 2^(15 n)
LimbShift(a, n) == IF a = <<>> THEN <<>> ELSE [i \in 1..n |-> 0] \o a

\* a * 2^n
BigShl(a, n) == LimbShift(BigTimes(a, 2 ^ (n % 15)), n \div 15)

\* a times the limbs i..j of b
RECURSIVE BigMulRange(_, _, _, _)
BigMulRange(a, b, i, j) ==
  IF i > j THEN <<>>
  ELSE IF i = j THEN BigTimes(a, b[i])
  ELSE BigAdd(BigMulRange(a, b, i, (i + j) \div 2),
              LimbShift(BigMulRange(a, b, (i + j) \div 2 + 1, j),
                        (i + j) \div 2 + 1 - i))

BigMul(a, b) == BigMulRange(a, b, 1, Len(b))

\* the number of binary digits
RECURSIVE IntBitLen(_)
IntBitLen(n) == IF n = 0 THEN 0 ELSE 1 + IntBitLen(n \div 2)

BigBitLen(a) ==
  IF a = <<>> THEN 0 ELSE 15 * (Len(a) - 1) + IntBitLen(a[Len(a)])

BigIsOdd(a) == a # <<>> /\ a[1] % 2 = 1

\* q + 2^i for a q that is a multiple of 2^(i+1)
SetBit(q, i) ==
  IF q = <<>>
  THEN [k \in 1..(i \div 15 + 1) |->
          IF k = i \div 15 + 1 THEN 2 ^ (i % 15) ELSE 0]
  ELSE [q EXCEPT ![i \div 15 + 1] = @ + 2 ^ (i % 15)]

\* division by d: the quotient q so far and what is left (r); bit i of the
\* quotient is set when di = d * 2^i fits into what is left
BigDivBitAt(st, di, i) ==
  IF BigLess(st.r, di) THEN st
  ELSE [q |-> SetBit(st.q, i), r |-> BigSub(st.r, di)]

BigDivBit(st, d, i) == BigDivBitAt(st, BigShl(d, i), i)

\* the bits hi down to lo (none is set once nothing is left)
RECURSIVE BigDivBits(_, _, _, _)
BigDivBits(st, d, hi, lo) ==
  IF st.r = <<>> \/ hi < lo THEN st
  ELSE IF hi = lo THEN BigDivBit(st, d, hi)
  ELSE BigDivBits(BigDivBits(st, d, hi, (hi + lo) \div 2 + 1), d,
                  (hi + lo) \div 2, lo)

\* quotient q and remainder r
BigDivMod(n, d) ==
  BigDivBits([q |-> <<>>, r |-> n], d, BigBitLen(n) - BigBitLen(d), 0)

Square(a) == BigMul(a, a)

RECURSIVE BigPow5(_)
BigPow5(k) ==
  IF k = 0 THEN <<1>>
  ELSE IF k % 2 = 1 THEN BigTimes(BigPow5(k - 1), 5)
  ELSE Square(BigPow5(k \div 2))

BigPow10(k) == BigShl(BigPow5(k), k)

\* the number written by the decimal digits i..j
RECURSIVE BigOfDigitsRange(_, _, _)
BigOfDigitsRange(digits, i, j) ==
  IF i > j THEN <<>>
  ELSE IF i = j THEN BigOfInt(DigitValue(digits[i]))
  ELSE BigAdd(BigMul(BigOfDigitsRange(digits, i, (i + j) \div 2),
                     BigPow10(j - (i + j) \div 2)),
              BigOfDigitsRange(digits, (i + j) \div 2 + 1, j))

BigOfDigits(digits) == BigOfDigitsRange(digits, 1, Len(digits))

U64Max == BigSub(BigShl(<<1>>, 64), <<1>>)

(***************************************************************************)
(* f64 (IEEE 754 binary64), sign apart: the magnitude m * 2^q with         *)
(* m < 2^53 and q >= -1074, m >= 2^52 unless q = -1074 (subnormal), zero   *)
(* as m = 0, or infinity.  Every operation rounds its exact result to the  *)
(* nearest f64, ties to the even m.                                        *)
(***************************************************************************)
F64Zero == [inf |-> FALSE, m |-> <<>>, q |-> 0]
F64Inf == [inf |-> TRUE, m |-> <<>>, q |-> 0]

Up(x) == IF x > 0 THEN x ELSE 0

TwoTo52 == BigShl(<<1>>, 52)

\* m * 2^q behind the rounding, m of the given number of binary digits:
\* m = 2^53 is 2^52 * 2^(q+1), a value of 2^1024 or more is infinity
F64Packed(m, q, bits) ==
  IF m = <<>> THEN F64Zero
  ELSE IF bits + q > 1024 THEN F64Inf
  ELSE IF bits = 54 THEN [inf |-> FALSE, m |-> TwoTo52, q |-> q + 1]
  ELSE [inf |-> FALSE, m |-> m, q |-> q]

F64Pack(m, q) == F64Packed(m, q, BigBitLen(m))

\* hi + r / d rounded to an integer, ties to even, given twice = 2 r
RoundUp(hi, twice, d) ==
  IF BigLess(d, twice) \/ (twice = d /\ BigIsOdd(hi))
  THEN BigAdd(hi, <<1>>)
  ELSE hi

\* the quotient dm of a division by d, rounded, times 2^q
F64Rounded(dm, d, q) == F64Pack(RoundUp(dm.q, BigTimes(dm.r, 2), d), q)

F64Quotient(n, d, q) == F64Rounded(BigDivMod(n, d), d, q)

\* the f64 of (n / d) * 2^e with the exponent q: m is (n / d) * 2^(e-q)
\* rounded
F64AtExponent(n, d, e, q) ==
  F64Quotient(BigShl(n, Up(e - q)), BigShl(d, Up(q - e)), q)

\* floor(log2(n / d)), which is k or k - 1 for k the difference of the
\* numbers of binary digits
Log2(n, d, k) ==
  IF BigLess(BigShl(n, Up(0 - k)), BigShl(d, Up(k))) THEN k - 1 ELSE k

\* the exponent q of an f64 between 2^x and 2^(x+1)
F64Exponent(x) == IF x - 52 < 0 - 1074 THEN 0 - 1074 ELSE x - 52

\* the f64 nearest to (n / d) * 2^e
F64OfRatio(n, d, e) ==
  IF n = <<>> THEN F64Zero
  ELSE F64AtExponent(n, d, e,
         F64Exponent(e + Log2(n, d, BigBitLen(n) - BigBitLen(d))))

\* POW10[k]: the f64 literal 1e<k> for k in 0..308, the f64 nearest to 10^k
POW10(k) == F64OfRatio(BigPow5(k), <<1>>, k)

\* f * p (up) or f / p
F64Step(f, p, up) ==
  F64OfRatio(IF up THEN BigMul(f.m, p.m) ELSE f.m,
             IF up THEN <<1>> ELSE p.m,
             IF up THEN f.q + p.q ELSE f.q - p.q)

\* the loop of f64_from_parts: f times the power of ten of the exponent,
\* or divided by it when the exponent is negative.  Beyond the table of
\* powers a zero stays, a positive exponent is infinity (the error "number
\* out of range"), a negative one divides by 1e308 and goes on.
RECURSIVE F64Scale(_, _)

F64Scaled(g, exponent) ==
  IF exponent >= 0 - 308 THEN g ELSE F64Scale(g, exponent + 308)

F64Scale(f, exponent) ==
  IF (exponent > 308 \/ exponent < 0 - 308) /\ f.m = <<>> THEN f
  ELSE IF exponent > 308 THEN F64Inf
  ELSE F64Scaled(F64Step(f, POW10(IF exponent < 0 - 308 THEN 308
                                  ELSE IF exponent < 0 THEN 0 - exponent
                                  ELSE exponent),
                         exponent >= 0),
                 exponent)

\* significand as f64, then the loop
F64OfDecimal(sig, exponent) ==
  F64Scale(F64OfRatio(sig, <<1>>, 0), exponent)

\* `n as f64` of an integer n below 2^53: n itself, as n * 2^0
F64OfInt(n) == [inf |-> FALSE, m |-> BigOfInt(n), q |-> 0]

\* a + b, both as multiples of 2^q
F64Sum(a, b, q) ==
  F64OfRatio(BigAdd(BigShl(a.m, a.q - q), BigShl(b.m, b.q - q)), <<1>>, q)

F64Plus(a, b) == F64Sum(a, b, IF a.q < b.q THEN a.q ELSE b.q)

(***************************************************************************)
(* The shortest decimal of a positive f64 v = m * 2^q: the decimal with    *)
(* the fewest digits that lies nearer to v than to any other f64 (the      *)
(* halfway points count when m is even), the one nearest to v among        *)
(* those.  It is what the formatter writes and it names v in the model.    *)
(* Computed on v = r / s, with mp / s and mm / s half the gaps to the next *)
(* f64 above and below: the digits of v are written one by one until the   *)
(* decimal written, or the next one above it, names v.                     *)
(***************************************************************************)
\* the f64 below is half as far as the one above: m = 2^52, not subnormal
F64Boundary(f) == IF f.m = TwoTo52 /\ f.q > 0 - 1074 THEN 1 ELSE 0

\* the digits written so far (acc) of r / s < 1, behind the digit d with
\* the new remainder r: the decimal is found (done) when the digits written
\* are within the gap below (low) or one more in the last digit is within
\* the gap above (high); when both are, the nearer of the two, the even
\* digit when they are equally near (twice = 2 r)
NearerAbove(d, twice, s) ==
  BigLess(s, twice) \/ (twice = s /\ d % 2 = 1)

DigitStep(d, r, s, mp, mm, acc, low, high) ==
  [r |-> r, mp |-> mp, mm |-> mm, done |-> low \/ high,
   acc |-> Append(acc,
                  IF high /\ (~low \/ NearerAbove(d, BigTimes(r, 2), s))
                  THEN DigitChars[d + 2] ELSE DigitChars[d + 1])]

\* a <= b when the halfway points count, a < b otherwise
Within(a, b, even) == IF even THEN ~BigLess(b, a) ELSE BigLess(a, b)

DigitOf(dm, s, mp, mm, even, acc) ==
  DigitStep(Limb(dm.q, 1), dm.r, s, mp, mm, acc,
            Within(dm.r, mm, even), Within(s, BigAdd(dm.r, mp), even))

\* the next digit
Digit(st, s, even) ==
  DigitOf(BigDivMod(BigTimes(st.r, 10), s), s, BigTimes(st.mp, 10),
          BigTimes(st.mm, 10), even, st.acc)

\* up to n further digits
RECURSIVE Digits(_, _, _, _)
Digits(st, s, even, n) ==
  IF st.done \/ n = 0 THEN st
  ELSE IF n = 1 THEN Digit(st, s, even)
  ELSE Digits(Digits(st, s, even, n \div 2), s, even, n - n \div 2)

\* the digits without the zeros at their start
RECURSIVE Significant(_)
Significant(digits) ==
  IF digits # <<>> /\ digits[1] = "0" THEN Significant(Tail(digits))
  ELSE digits

\* x * 2^n * p
Scaled(x, n, p) == BigMul(BigShl(x, n), p)

\* the digits behind the decimal point of v / 10^k, with mm / s half the
\* gap below v, half the gap above it up times that, and v = 2 m up mm / s
DigitsOf(m, s, mm, up, even) ==
  Digits([r |-> BigMul(m, BigTimes(mm, 2 * up)), mp |-> BigTimes(mm, up),
          mm |-> mm, done |-> FALSE, acc |-> <<>>], s, even, 21).acc

\* v = f.m * 2^f.q with a k so that v with half the gap above is below
\* 10^k: an f64 has a decimal of 17 digits or fewer, which up to four
\* zeros precede
ShortestAt(f, k, p) ==
  DigitsOf(f.m,
           Scaled(<<1>>, Up(0 - f.q) + 1 + F64Boundary(f),
                  IF k > 0 THEN p ELSE <<1>>),
           Scaled(<<1>>, Up(f.q), IF k > 0 THEN <<1>> ELSE p),
           1 + F64Boundary(f), ~BigIsOdd(f.m))

ShortestWith(digits, k) ==
  [d |-> Significant(digits), e |-> k - Len(digits)]

ShortestFrom(f, k) ==
  ShortestWith(ShortestAt(f, k, BigPow10(IF k > 0 THEN k ELSE 0 - k)), k)

\* the digits d and the exponent e of the shortest decimal d * 10^e of f:
\* v < 2^(bits + q) <= 10^k for the k taken
Shortest(f) ==
  ShortestFrom(f, ((BigBitLen(f.m) + f.q) * 30103) \div 100000 + 2)
(***************************************************************************)
(* serde_json::Value                                                       *)
(***************************************************************************)
JNull == [t |-> "null"]
JBool(b) == [t |-> "bool", b |-> b]
\* a number is N::PosInt or N::NegInt (float = FALSE): the integer written
\* by the decimal digits d, negative when neg
JInt(neg, d) == [t |-> "num", float |-> FALSE, neg |-> neg, d |-> d]
JNum(n) == JInt(n < 0, Decimal(IF n < 0 THEN 0 - n ELSE n))
\* or N::Float (float = TRUE): the f64 named by its shortest decimal
\* (-1)^neg * d * 10^e, where d are digits without a zero at either end and
\* zero is d = <<>>, e = 0
Float(neg, d, e) ==
  [t |-> "num", float |-> TRUE, neg |-> neg, d |-> d, e |-> e]

\* the f64 of an integer below 2^53, written by its digits: it is that
\* integer, and the integer without the zeros at its end is its shortest
\* decimal
FloatOfDecimal(neg, digits) ==
  IF StripZeros(digits) = <<>> THEN Float(neg, <<>>, 0)
  ELSE Float(neg, StripZeros(digits), Len(digits) - Len(StripZeros(digits)))

FloatOfShortest(neg, sh) == Float(neg, sh.d, sh.e)

\* the Value of an f64
FloatOfF64(neg, f) ==
  IF f.m = <<>> THEN Float(neg, <<>>, 0) ELSE FloatOfShortest(neg, Shortest(f))

\* Number::from_f64 of a float with the integral value n
JFloat(n) == FloatOfDecimal(n < 0, Decimal(IF n < 0 THEN 0 - n ELSE n))
JStr(s) == [t |-> "str", s |-> s]
JArr(a) == [t |-> "arr", a |-> a]
\* an object: a function from its keys (strings) to values
JObj(o) == [t |-> "obj", o |-> o]

EmptyMap == [k \in {} |-> JNull]

\* Map::insert: add the key or replace its value
MapInsert(o, key, val) ==
  [k \in (DOMAIN o) \cup {key} |-> IF k = key THEN val ELSE o[k]]

K_id == <<"i", "d">>
K_timestamp == <<"t", "i", "m", "e", "s", "t", "a", "m", "p">>

\* Value::index(&str): the member, or Null when self is not an object or
\* has no such key
Index(v, key) ==
  IF v.t = "obj" /\ key \in DOMAIN v.o THEN v.o[key] ELSE JNull

\* Value::as_str
IsString(v) == v.t = "str"

\* Value::as_f64 is Some only for a number
IsNumber(v) == v.t = "num"

\* an f64 as sign, digits and decimal exponent
F64Key(x) == [neg |-> x.neg, d |-> x.d, e |-> x.e]

\* Number::as_f64: a float is its value, an integer is cast (`as f64`), which
\* keeps an integer of up to 15 digits and rounds a longer one
as_f64(v) ==
  IF v.float THEN F64Key(v)
  ELSE IF Len(v.d) <= 15 THEN F64Key(FloatOfDecimal(v.neg, v.d))
  ELSE F64Key(FloatOfF64(v.neg, F64OfRatio(BigOfDigits(v.d), <<1>>, 0)))

\* the f64 0.0
Zero == [neg |-> FALSE, d |-> <<>>, e |-> 0]

\* the position of the first digit of d * 10^e, counted from the decimal
\* point: 10^(kk-1) <= d * 10^e < 10^kk
PointAt(x) == Len(x.d) + x.e

\* |a| < |b|
MagLess(a, b) ==
  IF b.d = <<>> THEN FALSE
  ELSE IF a.d = <<>> THEN TRUE
  ELSE IF PointAt(a) # PointAt(b) THEN PointAt(a) < PointAt(b)
  ELSE StrLess(PadRight(a.d, Len(b.d)), PadRight(b.d, Len(a.d)))

\* a < b on f64 values (-0.0 and 0.0 are equal)
F64Less(a, b) ==
  IF a.neg /\ a.d # <<>>
  THEN IF b.neg /\ b.d # <<>> THEN MagLess(b, a) ELSE TRUE
  ELSE IF b.neg /\ b.d # <<>> THEN FALSE ELSE MagLess(a, b)

(***************************************************************************)
(* serde_json::to_string_pretty (PrettyFormatter, two-space indent)        *)
(***************************************************************************)
RECURSIVE Spaces(_)
Spaces(n) == IF n = 0 THEN <<>> ELSE <<" ">> \o Spaces(n - 1)

\* format_escaped_str_contents: `"` and `\` get a backslash, the control
\* characters their short escape (\b \t \n \f \r) or \u00 and two lowercase
\* hexadecimal digits; every other character is copied
EscapeChar(c) ==
  CASE c = "\"" -> <<"\\", "\"">>
    [] c = "\\" -> <<"\\", "\\">>
    [] c = "U+0008" -> <<"\\", "b">>
    [] c = "\t" -> <<"\\", "t">>
    [] c = "\n" -> <<"\\", "n">>
    [] c = "\f" -> <<"\\", "f">>
    [] c = "\r" -> <<"\\", "r">>
    [] OTHER ->
         IF IsControl(c)
         THEN <<"\\", "u", "0", "0", HexLower[(CodePoint(c) \div 16) + 1],
                HexLower[(CodePoint(c) % 16) + 1]>>
         ELSE <<c>>

\* a JSON string literal: quotes around the escaped text
RECURSIVE EscapeStr(_)
EscapeStr(s) ==
  IF s = <<>> THEN <<>> ELSE EscapeChar(s[1]) \o EscapeStr(Tail(s))

Quote(s) == <<"\"">> \o EscapeStr(s) \o <<"\"">>

\* the least key of a non-empty key set (BTreeMap iteration order)
MinKey(keys) == CHOOSE k \in keys : \A m \in keys : m = k \/ StrLess(k, m)

\* itoa: the decimal digits of an integer, "-" in front when negative
FormatInt(v) == (IF v.neg THEN <<"-">> ELSE <<>>) \o v.d

\* the exponent of a float: always with its sign
FormatExponent(x) ==
  IF x < 0 THEN <<"-">> \o Decimal(0 - x) ELSE <<"+">> \o Decimal(x)

\* the digits d of the shortest decimal d * 10^e of a positive f64, written
\* plainly when the decimal point falls within 16 digits (12340000.0, 12.34,
\* 0.001234) and with an exponent otherwise (1e+30, 1.234e+33, 1e-7)
FormatDigits(d, e) ==
  IF 0 <= e /\ Len(d) + e <= 16
  THEN d \o PadRight(<<>>, e) \o <<".", "0">>
  ELSE IF 0 < Len(d) + e /\ Len(d) + e <= 16
  THEN SubSeq(d, 1, Len(d) + e) \o <<".">> \o SubSeq(d, Len(d) + e + 1, Len(d))
  ELSE IF 0 - 5 < Len(d) + e /\ Len(d) + e <= 0
  THEN <<"0", ".">> \o PadRight(<<>>, 0 - (Len(d) + e)) \o d
  ELSE IF Len(d) = 1
  THEN d \o <<"e">> \o FormatExponent(Len(d) + e - 1)
  ELSE <<d[1], ".">> \o Tail(d) \o <<"e">> \o FormatExponent(Len(d) + e - 1)

\* the text of an f64: sign, then 0.0 or the digits
FormatFloat(v) ==
  (IF v.neg THEN <<"-">> ELSE <<>>)
  \o (IF v.d = <<>> THEN <<"0", ".", "0">> ELSE FormatDigits(v.d, v.e))

\* Serialize for Number: integers through itoa, floats through the float
\* formatter
FormatNumber(v) == IF v.float THEN FormatFloat(v) ELSE FormatInt(v)

RECURSIVE Pretty(_, _), PrettyElems(_, _, _), PrettyMembers(_, _, _)

\* the elements of an array from position i on, each on its own line
PrettyElems(a, i, depth) ==
  IF i > Len(a) THEN <<>>
  ELSE (IF i = 1 THEN <<"\n">> ELSE <<",", "\n">>)
       \o Spaces(2 * depth) \o Pretty(a[i], depth)
       \o PrettyElems(a, i + 1, depth)

\* the members of an object whose keys are still to be written
PrettyMembers(o, keys, depth) ==
  IF keys = {} THEN <<>>
  ELSE LET k == MinKey(keys)
       IN (IF keys = DOMAIN o THEN <<"\n">> ELSE <<",", "\n">>)
          \o Spaces(2 * depth) \o Quote(k) \o <<":", " ">>
          \o Pretty(o[k], depth)
          \o PrettyMembers(o, keys \ {k}, depth)

Pretty(v, depth) ==
  CASE v.t = "null" -> <<"n", "u", "l", "l">>
    [] v.t = "bool" -> IF v.b THEN <<"t", "r", "u", "e">>
                       ELSE <<"f", "a", "l", "s", "e">>
    [] v.t = "num" -> FormatNumber(v)
    [] v.t = "str" -> Quote(v.s)
    [] v.t = "arr" ->
         IF v.a = <<>> THEN <<"[", "]">>
         ELSE <<"[">> \o PrettyElems(v.a, 1, depth + 1)
              \o <<"\n">> \o Spaces(2 * depth) \o <<"]">>
    [] v.t = "obj" ->
         IF DOMAIN v.o = {} THEN <<"{", "}">>
         ELSE <<"{">> \o PrettyMembers(v.o, DOMAIN v.o, depth + 1)
              \o <<"\n">> \o Spaces(2 * depth) \o <<"}">>

to_string_pretty(v) == Pretty(v, 0)

(***************************************************************************)
(* serde_json::from_str: a recursive-descent parser over the characters.   *)
(* A number with a fraction or an exponent is computed as the parser does: *)
(* the digits are gathered into a u64 significand, which is cast to f64    *)
(* and multiplied or divided by a power of ten, each step rounded to f64.  *)
(***************************************************************************)
At(s, i) == IF i >= 1 /\ i <= Len(s) THEN s[i] ELSE "EOF"

Fail == [ok |-> FALSE]
Done(v, i) == [ok |-> TRUE, v |-> v, i |-> i]

RECURSIVE SkipWs(_, _)
SkipWs(s, i) ==
  IF At(s, i) \in {" ", "\n", "\t", "\r"} THEN SkipWs(s, i + 1) ELSE i

\* the first position from i on that holds no digit
RECURSIVE DigitsEnd(_, _)
DigitsEnd(s, i) == IF IsDigit(At(s, i)) THEN DigitsEnd(s, i + 1) ELSE i

\* the value of the digits s[i..j-1]
RECURSIVE DigitsValue(_, _, _)
DigitsValue(s, i, j) ==
  IF j <= i THEN 0
  ELSE 10 * DigitsValue(s, i, j - 1) + DigitValue(s[j - 1])

\* decode_hex_escape: the value of the four hexadecimal digits s[i..i+3],
\* -1 when one of them is missing or no hexadecimal digit
Hex4(s, i) ==
  IF \A k \in i..(i + 3) : IsHexDigit(At(s, k))
  THEN 4096 * HexDigitValue(At(s, i)) + 256 * HexDigitValue(At(s, i + 1))
       + 16 * HexDigitValue(At(s, i + 2)) + HexDigitValue(At(s, i + 3))
  ELSE 0 - 1

IsLeadSurrogate(n) == n >= 55296 /\ n <= 56319
IsTrailSurrogate(n) == n >= 56320 /\ n <= 57343

\* parse_unicode_escape at the `\` of `\uXXXX` (position i): the character
\* and the position behind the escape.  A leading surrogate must be followed
\* by the escape of a trailing one, with which it forms one character; a
\* trailing surrogate alone is an error.
UnicodeEscape(s, i) ==
  IF Hex4(s, i + 2) < 0 \/ IsTrailSurrogate(Hex4(s, i + 2)) THEN Fail
  ELSE IF ~IsLeadSurrogate(Hex4(s, i + 2))
  THEN Done(CharOf(Hex4(s, i + 2)), i + 6)
  ELSE IF /\ At(s, i + 6) = "\\"
          /\ At(s, i + 7) = "u"
          /\ IsTrailSurrogate(Hex4(s, i + 8))
  THEN Done(CharOf(65536 + 1024 * (Hex4(s, i + 2) - 55296)
                   + (Hex4(s, i + 8) - 56320)), i + 12)
  ELSE Fail

\* parse_escape at the `\` at position i
Escape(s, i) ==
  CASE At(s, i + 1) \in {"\"", "\\", "/"} -> Done(At(s, i + 1), i + 2)
    [] At(s, i + 1) = "b" -> Done("U+0008", i + 2)
    [] At(s, i + 1) = "f" -> Done("\f", i + 2)
    [] At(s, i + 1) = "n" -> Done("\n", i + 2)
    [] At(s, i + 1) = "r" -> Done("\r", i + 2)
    [] At(s, i + 1) = "t" -> Done("\t", i + 2)
    [] At(s, i + 1) = "u" -> UnicodeEscape(s, i)
    [] OTHER -> Fail

RECURSIVE ParseString(_, _, _)

\* the literal continues behind an escape
Escaped(s, esc, acc) ==
  IF esc.ok THEN ParseString(s, esc.i, Append(acc, esc.v)) ELSE Fail

\* the text of a string literal from position i (after the opening quote);
\* a control character must be escaped
ParseString(s, i, acc) ==
  CASE At(s, i) = "EOF" -> Fail
    [] At(s, i) = "\"" -> Done(acc, i + 1)
    [] At(s, i) = "\\" -> Escaped(s, Escape(s, i), acc)
    [] OTHER -> IF IsControl(At(s, i)) THEN Fail
                ELSE ParseString(s, i + 1, Append(acc, At(s, i)))

\* the first position from i on that holds no "0"
RECURSIVE ZerosEnd(_, _)
ZerosEnd(s, i) == IF At(s, i) = "0" THEN ZerosEnd(s, i + 1) ELSE i

\* f64_from_parts: the f64 of significand * 10^exponent as the parser
\* computes it; infinity is the error "number out of range"
F64Result(neg, f, end) ==
  IF f.inf THEN Fail ELSE Done(FloatOfF64(neg, f), end)

F64FromParts(neg, sig, exponent, end) ==
  F64Result(neg, F64OfDecimal(sig, exponent), end)

\* the digits from position i on taken into the u64 significand sig, n of
\* them so far; the loop stops (full) in front of a digit with which the
\* significand would overflow
AccumulateNext(st, next) ==
  IF BigLess(U64Max, next)
  THEN [sig |-> st.sig, i |-> st.i, n |-> st.n, full |-> TRUE]
  ELSE [sig |-> next, i |-> st.i + 1, n |-> st.n + 1, full |-> FALSE]

AccumulateDigit(s, st) ==
  AccumulateNext(st, BigAdd(BigTimes(st.sig, 10),
                            BigOfInt(DigitValue(At(s, st.i)))))

\* the next count digits
RECURSIVE AccumulateRange(_, _, _)
AccumulateRange(s, st, count) ==
  IF st.full \/ count = 0 THEN st
  ELSE IF count = 1 THEN AccumulateDigit(s, st)
  ELSE AccumulateRange(s, AccumulateRange(s, st, count \div 2),
                       count - count \div 2)

Accumulate(s, i, sig) ==
  AccumulateRange(s, [sig |-> sig, i |-> i, n |-> 0, full |-> FALSE],
                  DigitsEnd(s, i) - i)

\* The parts of a number literal: whether it is well formed so far (ok),
\* whether it is a float (has a fraction, an exponent, or integer digits
\* beyond the u64), the significand, the decimal exponent, and the position
\* behind it (end).
Parts(ok, float, sig, exponent, end) ==
  [ok |-> ok, float |-> float, sig |-> sig, exponent |-> exponent,
   end |-> end, beyond |-> FALSE, down |-> FALSE]

\* parse_decimal behind the "." with the exponent `before` that integer
\* digits beyond the significand gave: each fraction digit taken lowers the
\* exponent, the digits that would overflow the significand are skipped
\* (parse_decimal_overflow); without overflow there must be a digit
ParseDecimal(acc, before, end) ==
  Parts(acc.full \/ acc.n > 0, TRUE, acc.sig, before - acc.n, end)

\* parse_integer and parse_long_integer behind the integer digits, which
\* end at j: each digit beyond the significand raises the exponent; then
\* the fraction if a "." follows
ParseSignificand(s, acc, j) ==
  IF At(s, j) = "."
  THEN ParseDecimal(Accumulate(s, j + 1, acc.sig), j - acc.i,
                    DigitsEnd(s, j + 1))
  ELSE Parts(TRUE, acc.full, acc.sig, j - acc.i, j)

\* parse_exponent at the "e" at position f, the digits from sb on: the
\* exponent must have a digit and is added to the one the digits gave.  An
\* exponent of ten digits or more is beyond every f64 (in the parser it
\* overflows i32 or leaves the table of powers), downwards when negative.
ExponentOf(s, p, f, sb) ==
  [ok |-> DigitsEnd(s, sb) > sb, float |-> TRUE, sig |-> p.sig,
   end |-> DigitsEnd(s, sb),
   beyond |-> DigitsEnd(s, sb) - ZerosEnd(s, sb) > 9,
   down |-> At(s, f + 1) = "-",
   exponent |->
     IF DigitsEnd(s, sb) - ZerosEnd(s, sb) > 9 THEN 0
     ELSE IF At(s, f + 1) = "-"
     THEN p.exponent - DigitsValue(s, sb, DigitsEnd(s, sb))
     ELSE p.exponent + DigitsValue(s, sb, DigitsEnd(s, sb))]

ParseExponent(s, p) ==
  IF p.ok /\ At(s, p.end) \in {"e", "E"}
  THEN ExponentOf(s, p, p.end,
                  IF At(s, p.end + 1) \in {"+", "-"} THEN p.end + 2
                  ELSE p.end + 1)
  ELSE p

\* the Value of the parts of a literal with the integer digits from b on.
\* Beyond the exponents of f64 the number is zero when the exponent goes
\* down or the significand is zero, and out of range otherwise.  An integer
\* is a u64, or an i64 down to -2^63 when negative; "-0" and what lies below
\* -2^63 are the floats of -(significand as f64).
NumberOf(s, neg, b, p) ==
  IF ~p.ok THEN Fail
  ELSE IF p.beyond
  THEN (IF p.down \/ p.sig = <<>> THEN Done(Float(neg, <<>>, 0), p.end)
        ELSE Fail)
  ELSE IF ~p.float /\ (~neg \/ (p.sig # <<>> /\ ~BigLess(BigShl(<<1>>, 63),
                                                         p.sig)))
  THEN Done(JInt(neg, SubSeq(s, b, p.end - 1)), p.end)
  ELSE F64FromParts(neg, p.sig, IF p.float THEN p.exponent ELSE 0, p.end)

\* parse_integer at position b: a digit must stand there, and a "0" stands
\* alone
ParseDigits(s, neg, b) ==
  IF ~IsDigit(At(s, b)) \/ (At(s, b) = "0" /\ IsDigit(At(s, b + 1)))
  THEN Fail
  ELSE NumberOf(s, neg, b,
                ParseExponent(s, ParseSignificand(s, Accumulate(s, b, <<>>),
                                                  DigitsEnd(s, b))))

ParseNumber(s, i) ==
  ParseDigits(s, At(s, i) = "-", IF At(s, i) = "-" THEN i + 1 ELSE i)

Matches(s, i, word) ==
  \A k \in 1..Len(word) : At(s, i + k - 1) = word[k]

\* the depth the parser starts with: 127 arrays or objects inside each other
\* parse, 128 are the error "recursion limit exceeded"
RecursionLimit == 128

RECURSIVE ParseValue(_, _, _), ParseElems(_, _, _, _),
          ParseMembers(_, _, _, _)

ParseElems(s, i, acc, depth) ==
  LET r == ParseValue(s, i, depth)
      j == SkipWs(s, r.i)
  IN IF ~r.ok THEN Fail
     ELSE CASE At(s, j) = "," -> ParseElems(s, j + 1, Append(acc, r.v), depth)
            [] At(s, j) = "]" -> Done(JArr(Append(acc, r.v)), j + 1)
            [] OTHER -> Fail

ParseMembers(s, i0, acc, depth) ==
  LET i == SkipWs(s, i0)
      key == ParseString(s, i + 1, <<>>)
      c == SkipWs(s, key.i)
      val == ParseValue(s, c + 1, depth)
      j == SkipWs(s, val.i)
  IN IF At(s, i) # "\"" THEN Fail
     ELSE IF ~key.ok THEN Fail
     ELSE IF At(s, c) # ":" THEN Fail
     ELSE IF ~val.ok THEN Fail
     ELSE CASE At(s, j) = "," ->
                 ParseMembers(s, j + 1, MapInsert(acc, key.v, val.v), depth)
            [] At(s, j) = "}" ->
                 Done(JObj(MapInsert(acc, key.v, val.v)), j + 1)
            [] OTHER -> Fail

\* parse_value with `depth` levels of nesting left: entering an array or an
\* object uses one up, and the last one cannot be used
ParseValue(s, i0, depth) ==
  LET i == SkipWs(s, i0)
      c == At(s, i)
      str == ParseString(s, i + 1, <<>>)
  IN CASE c = "{" ->
            IF depth <= 1 THEN Fail
            ELSE IF At(s, SkipWs(s, i + 1)) = "}"
            THEN Done(JObj(EmptyMap), SkipWs(s, i + 1) + 1)
            ELSE ParseMembers(s, i + 1, EmptyMap, depth - 1)
       [] c = "[" ->
            IF depth <= 1 THEN Fail
            ELSE IF At(s, SkipWs(s, i + 1)) = "]"
            THEN Done(JArr(<<>>), SkipWs(s, i + 1) + 1)
            ELSE ParseElems(s, i + 1, <<>>, depth - 1)
       [] c = "\"" -> IF str.ok THEN Done(JStr(str.v), str.i) ELSE Fail
       [] c = "-" \/ IsDigit(c) -> ParseNumber(s, i)
       [] c = "n" /\ Matches(s, i, <<"n", "u", "l", "l">>) ->
            Done(JNull, i + 4)
       [] c = "t" /\ Matches(s, i, <<"t", "r", "u", "e">>) ->
            Done(JBool(TRUE), i + 4)
       [] c = "f" /\ Matches(s, i, <<"f", "a", "l", "s", "e">>) ->
            Done(JBool(FALSE), i + 5)
       [] OTHER -> Fail

\* the whole text must be one value, followed by whitespace only
from_str(s) ==
  LET r == ParseValue(s, 1, RecursionLimit)
  IN IF r.ok /\ SkipWs(s, r.i) > Len(s)
     THEN [ok |-> TRUE, v |-> r.v]
     ELSE [ok |-> FALSE]

(***************************************************************************)
(* Paths and the filesystem                                                *)
(*   dirs  : the set of existing directories (a path is a sequence of      *)
(*           components from the filesystem root)                          *)
(*   files : path -> [content, created] for every existing regular file,   *)
(*           created being the creation time the filesystem recorded       *)
(*   env   : the condition of the platform the commands run on             *)
(***************************************************************************)
Root == <<>>

\* app_handle.path().app_data_dir() when it resolves
AppDataDir == << <<"a", "p", "p">> >>

\* app_data_dir.join("chats")
ChatsDir == Append(AppDataDir, <<"c", "h", "a", "t", "s">>)

\* "ok"          : every call to the platform succeeds where it can
\* "no_data_dir" : the platform cannot resolve the app data directory
\* "read_only"   : nothing can be created, written or removed
\* "no_dir_read" : the store directory cannot be scanned
Envs == {"ok", "no_data_dir", "read_only", "no_dir_read"}

\* an Err(String): the fixed text and the underlying detail appended to it
Err(prefix, detail) ==
  [ok |-> FALSE, err |-> [prefix |-> prefix, detail |-> detail]]

Parent(p) == IF p = Root THEN Root ELSE SubSeq(p, 1, Len(p) - 1)

\* the components of a path string, split at "/"
RECURSIVE SplitPath(_, _, _)
SplitPath(s, cur, acc) ==
  IF s = <<>> THEN Append(acc, cur)
  ELSE IF s[1] = "/" THEN SplitPath(Tail(s), <<>>, Append(acc, cur))
  ELSE SplitPath(Tail(s), Append(cur, s[1]), acc)

\* the directory reached from cur through the components comps[i..n-1];
\* each named component must be an existing directory, and the walk fails
\* at the first one that is not
RECURSIVE WalkDirs(_, _, _, _)
WalkDirs(cur, comps, i, ds) ==
  IF i >= Len(comps) THEN [ok |-> TRUE, dir |-> cur]
  ELSE CASE comps[i] \in {<<>>, <<".">>} -> WalkDirs(cur, comps, i + 1, ds)
         [] comps[i] = <<".", ".">> -> WalkDirs(Parent(cur), comps, i + 1, ds)
         [] OTHER ->
              IF Append(cur, comps[i]) \in ds
              THEN WalkDirs(Append(cur, comps[i]), comps, i + 1, ds)
              ELSE [ok |-> FALSE, nul |-> FALSE, at |-> Append(cur, comps[i])]

\* the file `name` in the directory the walk reached
FileIn(w, name) ==
  IF w.ok THEN [ok |-> TRUE, path |-> Append(w.dir, name)] ELSE w

LookUp(start, comps, ds) ==
  FileIn(WalkDirs(start, comps, 1, ds), comps[Len(comps)])

\* PathBuf::join followed by the platform's path lookup: a string that
\* starts with "/" replaces the base, any other is looked up from it.  A
\* path with a NUL character in it never reaches the platform.
ResolveJoin(base, s, ds) ==
  IF \E i \in 1..Len(s) : s[i] = Nul
  THEN [ok |-> FALSE, nul |-> TRUE, at |-> Root]
  ELSE LookUp(IF s[1] = "/" THEN Root ELSE base, SplitPath(s, <<>>, <<>>), ds)

\* the error of a lookup that failed: the path cannot be passed to the
\* platform, a component is a regular file, or a component does not exist
PathError(r, fs) ==
  IF r.nul THEN Err("", "NUL byte in file name")
  ELSE IF r.at \in DOMAIN fs THEN Err("", "ENOTDIR")
  ELSE Err("", "ENOENT")

\* the position of the last "." of a file name, 0 when it has none
LastDot(name) ==
  IF \E i \in 1..Len(name) : name[i] = "."
  THEN CHOOSE i \in 1..Len(name) :
         name[i] = "." /\ \A j \in (i + 1)..Len(name) : name[j] # "."
  ELSE 0

\* Path::extension: the part after the last ".", none when the name has
\* no "." or only a leading one
HasExtension(name) == LastDot(name) > 1
Extension(name) == SubSeq(name, LastDot(name) + 1, Len(name))

\* Path::file_stem: the part before the last ".", the whole name when
\* there is no extension
FileStem(name) ==
  IF HasExtension(name) THEN SubSeq(name, 1, LastDot(name) - 1) ELSE name

DotJson == <<".", "j", "s", "o", "n">>

\* format!("{}.json", id)
FileName(id) == id \o DotJson

\* fs::read_to_string: the file must exist and hold valid UTF-8
read_to_string(r, fs) ==
  IF r.ok /\ r.path \in DOMAIN fs /\ IsUtf8(fs[r.path].content)
  THEN [ok |-> TRUE, content |-> fs[r.path].content]
  ELSE [ok |-> FALSE]

(***************************************************************************)
(* get_chats_dir                                                           *)
(***************************************************************************)
get_chats_dir(ds, e) ==
  IF e = "no_data_dir"
  THEN Err("Failed to get app data dir: ", "unknown path")
  ELSE IF ChatsDir \in ds
  THEN [ok |-> TRUE, dirs |-> ds]
  ELSE IF e = "read_only"
  THEN Err("Failed to create chats directory: ", "EROFS")
  ELSE [ok |-> TRUE, dirs |-> ds \cup {Root, AppDataDir, ChatsDir}]

(***************************************************************************)
(* save_chat                                                               *)
(***************************************************************************)
ChatPrefix == <<"c", "h", "a", "t", "_">>

\* (mutant) the synthesized id also depends on the session: a session with
\* a timestamp gets a longer id
ResolveId_BySession(session, clock) ==
  LET given == IF IsString(Index(session, K_id))
               THEN Index(session, K_id).s ELSE <<>>
  IN IF given # <<>> THEN given
     ELSE IF Index(session, K_timestamp) = JNull
     THEN ChatPrefix \o Decimal(clock)
     ELSE ChatPrefix \o Decimal(clock) \o <<"0">>

\* session["id"].as_str().unwrap_or_default(), replaced when empty by
\* "chat_" and the clock reading in milliseconds
ResolveId(session, clock) ==
  LET given == IF IsString(Index(session, K_id))
               THEN Index(session, K_id).s ELSE <<>>
  IN IF given = <<>> THEN ChatPrefix \o Decimal(clock) ELSE given

\* fs::write: creates the file (the filesystem records the creation time
\* `birthtime`) or replaces the content of an existing one; the directories
\* on the way are looked up before the platform refuses to write
fs_write(r, content, fs, e, birthtime) ==
  IF ~r.ok THEN PathError(r, fs)
  ELSE IF e = "read_only" THEN Err("", "EROFS")
  ELSE [ok |-> TRUE,
        files |-> [p \in (DOMAIN fs) \cup {r.path} |->
                     IF p = r.path
                     THEN [content |-> content,
                           created |-> IF p \in DOMAIN fs
                                       THEN fs[p].created ELSE birthtime]
                     ELSE fs[p]]]

\* (mutant) the session is written as given, without setting its id
SessionContent_KeepStoredId(session, id) == to_string_pretty(session)

\* the text written: the object with its `id` set to the resolved id,
\* pretty-printed
SessionContent(session, id) ==
  to_string_pretty(JObj(MapInsert(session.o, K_id, JStr(id))))

\* the outcome once fs::write has returned w
Written(w, id, gd, fs) ==
  IF ~w.ok THEN [res |-> w, dirs |-> gd.dirs, files |-> fs]
  ELSE [res |-> [ok |-> TRUE, id |-> id], dirs |-> gd.dirs, files |-> w.files]

\* the outcome once get_chats_dir has returned gd
SaveIn(gd, session, id, ds, fs, e, birthtime) ==
  IF ~gd.ok THEN [res |-> gd, dirs |-> ds, files |-> fs]
  ELSE IF session.t # "obj"
  THEN [res |-> Err("Invalid session format", ""),
        dirs |-> gd.dirs, files |-> fs]
  ELSE Written(fs_write(ResolveJoin(ChatsDir, FileName(id), gd.dirs),
                        SessionContent(session, id), fs, e, birthtime),
               id, gd, fs)

\* the outcome of save_chat: its result and the filesystem it leaves.  The
\* id comes from the clock reading of line 26, the creation time of a new
\* file from the filesystem.
save_chat(session, ds, fs, e, clock, birthtime) ==
  SaveIn(get_chats_dir(ds, e), session, ResolveId(session, clock),
         ds, fs, e, birthtime)

(***************************************************************************)
(* load_chat                                                               *)
(***************************************************************************)
\* (mutant) a file that does not parse is reported as missing
ParseChat_AsNotFound(data) ==
  IF ~data.ok THEN Err("Chat not found", "")
  ELSE [ok |-> TRUE, data |-> data.v]

\* serde_json::from_str(&content).map_err(|e| e.to_string())
ParseChat(data) ==
  IF ~data.ok THEN Err("", "expected value")
  ELSE [ok |-> TRUE, data |-> data.v]

\* (mutant) the read error is passed on with its detail
ReadChat_LeakDetail(content) ==
  IF ~content.ok THEN Err("", "ENOENT")
  ELSE ParseChat(from_str(content.content))

\* fs::read_to_string(path).map_err(|_| "Chat not found")
ReadChat(content) ==
  IF ~content.ok THEN Err("Chat not found", "")
  ELSE ParseChat(from_str(content.content))

\* (mutant) load repairs the id of the object as list does
LoadIn_RepairId(gd, id, ds, fs) ==
  LET r == ReadChat(read_to_string(
                      ResolveJoin(ChatsDir, FileName(id), gd.dirs), fs))
  IN IF ~gd.ok THEN [res |-> gd, dirs |-> ds]
     ELSE IF r.ok /\ r.data.t = "obj"
     THEN [res |-> [ok |-> TRUE,
                    data |-> JObj(MapInsert(r.data.o, K_id, JStr(id)))],
           dirs |-> gd.dirs]
     ELSE [res |-> r, dirs |-> gd.dirs]

\* the outcome once get_chats_dir has returned gd
LoadIn(gd, id, ds, fs) ==
  IF ~gd.ok THEN [res |-> gd, dirs |-> ds]
  ELSE [res |-> ReadChat(read_to_string(
                           ResolveJoin(ChatsDir, FileName(id), gd.dirs), fs)),
        dirs |-> gd.dirs]

load_chat(id, ds, fs, e) == LoadIn(get_chats_dir(ds, e), id, ds, fs)

(***************************************************************************)
(* delete_chat                                                             *)
(***************************************************************************)
\* (mutant) removing a file that does not exist counts as done
remove_file_IgnoreMissing(r, fs, e) ==
  IF ~r.ok THEN [ok |-> TRUE, files |-> fs]
  ELSE IF e = "read_only" THEN Err("", "EROFS")
  ELSE IF r.path \notin DOMAIN fs THEN [ok |-> TRUE, files |-> fs]
  ELSE [ok |-> TRUE, files |-> [p \in (DOMAIN fs) \ {r.path} |-> fs[p]]]

\* (mutant) the removal takes every file of the same directory with it
remove_file_WholeDirectory(r, fs, e) ==
  IF ~r.ok THEN PathError(r, fs)
  ELSE IF e = "read_only" THEN Err("", "EROFS")
  ELSE IF r.path \notin DOMAIN fs THEN Err("", "ENOENT")
  ELSE [ok |-> TRUE,
        files |-> [p \in {q \in DOMAIN fs : Parent(q) # Parent(r.path)}
                     |-> fs[p]]]

\* fs::remove_file (unlink): the directories on the way are looked up, then
\* a read-only filesystem refuses, and only then is the name looked up
remove_file(r, fs, e) ==
  IF ~r.ok THEN PathError(r, fs)
  ELSE IF e = "read_only" THEN Err("", "EROFS")
  ELSE IF r.path \notin DOMAIN fs THEN Err("", "ENOENT")
  ELSE [ok |-> TRUE, files |-> [p \in (DOMAIN fs) \ {r.path} |-> fs[p]]]

\* the outcome once fs::remove_file has returned rm
Removed(rm, gd, fs) ==
  IF ~rm.ok THEN [res |-> rm, dirs |-> gd.dirs, files |-> fs]
  ELSE [res |-> [ok |-> TRUE], dirs |-> gd.dirs, files |-> rm.files]

\* the outcome once get_chats_dir has returned gd
DeleteIn(gd, id, ds, fs, e) ==
  IF ~gd.ok THEN [res |-> gd, dirs |-> ds, files |-> fs]
  ELSE Removed(remove_file(ResolveJoin(ChatsDir, FileName(id), gd.dirs),
                           fs, e),
               gd, fs)

delete_chat(id, ds, fs, e) == DeleteIn(get_chats_dir(ds, e), id, ds, fs, e)

(***************************************************************************)
(* list_chats                                                              *)
(***************************************************************************)
Json == <<"j", "s", "o", "n">>

\* the files of the store directory itself (read_dir does not descend)
Entries(fs) == {p \in DOMAIN fs : Parent(p) = ChatsDir}

\* every order in which read_dir may yield the entries
Orders(S) ==
  {f \in [1..Cardinality(S) -> S] : \A x \in S : \E i \in DOMAIN f : f[i] = x}

\* obj.insert("id", stem) when the stem of the file name is valid UTF-8
WithStemId(o, stem) ==
  IF IsUtf8(stem) THEN MapInsert(o, K_id, JStr(stem)) ELSE o

\* a creation time: the Duration since the epoch that
\* metadata.created() gives, whole seconds and nanoseconds
Duration(secs, nanos) == [secs |-> secs, nanos |-> nanos]

\* the creation times the filesystem gives to new files: 0.7 ms and 1.3 ms
\* after the epoch, about the clock readings but not the readings
T_early == Duration(0, 700000)
T_late == Duration(0, 1300000)
CreationTimes == {T_early, T_late}

\* creation times of files found in the store: 1001 ms after the epoch
\* (as_secs_f64() * 1000.0 is 1000.9999999999999) and a time of day with
\* nanoseconds
T_1001ms == Duration(1, 1000000)
T_today == Duration(1761912345, 123456789)

\* Duration::as_secs_f64: secs as f64 + nanos as f64 / 1e9
as_secs_f64(d) ==
  F64Plus(F64OfInt(d.secs),
          F64Step(F64OfInt(d.nanos), F64OfInt(1000000000), FALSE))

\* Number::from_f64(duration.as_secs_f64() * 1000.0)
Millis(d) == FloatOfF64(FALSE, F64Step(as_secs_f64(d), F64OfInt(1000), TRUE))

\* Millis of the creation times above, computed once
Timestamps == [d \in CreationTimes \cup {T_1001ms, T_today} |-> Millis(d)]

\* obj.insert("timestamp", creation time in ms) when the object has no
\* timestamp and the platform reports creation times (`birth`)
WithTimestamp(o, created, birth) ==
  IF K_timestamp \notin DOMAIN o /\ birth
  THEN MapInsert(o, K_timestamp,
                 IF created \in DOMAIN Timestamps THEN Timestamps[created]
                 ELSE Millis(created))
  ELSE o

\* the value pushed for a parsed file: objects get id and timestamp
Repaired(data, name, created, birth) ==
  IF data.t = "obj"
  THEN JObj(WithTimestamp(WithStemId(data.o, FileStem(name)), created, birth))
  ELSE data

\* (mutant) only objects are pushed
Pushed_ObjectsOnly(parsed, name, created, birth) ==
  IF parsed.ok /\ parsed.v.t = "obj"
  THEN [some |-> TRUE, data |-> Repaired(parsed.v, name, created, birth)]
  ELSE [some |-> FALSE]

Pushed(parsed, name, created, birth) ==
  IF parsed.ok
  THEN [some |-> TRUE, data |-> Repaired(parsed.v, name, created, birth)]
  ELSE [some |-> FALSE]

ReadAndParse(content, name, created, birth) ==
  IF content.ok
  THEN Pushed(from_str(content.content), name, created, birth)
  ELSE [some |-> FALSE]

\* the extension of the entry is exactly "json"
IsJsonEntry(name) ==
  HasExtension(name) /\ IsUtf8(Extension(name)) /\ Extension(name) = Json

\* the loop body for one entry: the value pushed, if any
ReadEntry(path, fs, birth) ==
  IF IsJsonEntry(path[Len(path)])
  THEN ReadAndParse(read_to_string([ok |-> TRUE, path |-> path], fs),
                    path[Len(path)], fs[path].created, birth)
  ELSE [some |-> FALSE]

\* (mutant) the scan ends at the first entry that cannot be read or parsed
RECURSIVE Collect_StopAtBad(_, _, _, _)
Collect_StopAtBad(order, i, fs, birth) ==
  IF i > Len(order) \/ ~ReadEntry(order[i], fs, birth).some THEN <<>>
  ELSE <<ReadEntry(order[i], fs, birth).data>>
       \o Collect_StopAtBad(order, i + 1, fs, birth)

\* sessions.push(data)
Push(r) == IF r.some THEN <<r.data>> ELSE <<>>

\* the sessions pushed while walking the entries order[i..]
RECURSIVE Collect(_, _, _, _)
Collect(order, i, fs, birth) ==
  IF i > Len(order) THEN <<>>
  ELSE Push(ReadEntry(order[i], fs, birth)) \o Collect(order, i + 1, fs, birth)

\* a["timestamp"].as_f64().unwrap_or(0.0)
SortKey(v) ==
  IF IsNumber(Index(v, K_timestamp)) THEN as_f64(Index(v, K_timestamp))
  ELSE Zero

\* (mutant) the comparison the other way round: ascending
ComesBefore_Ascending(a, b) == F64Less(SortKey(a), SortKey(b))

\* t_b.partial_cmp(&t_a) == Less: a sorts before b
ComesBefore(a, b) == F64Less(SortKey(b), SortKey(a))

\* x put into an already sorted sequence, behind the elements it does not
\* come before (sort_by is stable)
RECURSIVE InsertSorted(_, _)
InsertSorted(sorted, x) ==
  IF sorted = <<>> THEN <<x>>
  ELSE IF ComesBefore(x, sorted[1]) THEN <<x>> \o sorted
  ELSE <<sorted[1]>> \o InsertSorted(Tail(sorted), x)

RECURSIVE SortSessions(_, _)
SortSessions(sessions, n) ==
  IF n = 0 THEN <<>>
  ELSE InsertSorted(SortSessions(sessions, n - 1), sessions[n])

\* sessions.sort_by(..)
SortAll(sessions) == SortSessions(sessions, Len(sessions))

\* the entries read_dir yields: none when the directory cannot be scanned
Scanned(order, e) == IF e = "no_dir_read" THEN <<>> ELSE order

ListIn(gd, order, birth, ds, fs, e) ==
  IF ~gd.ok THEN [res |-> gd, dirs |-> ds]
  ELSE [res |-> [ok |-> TRUE,
                 sessions |-> SortAll(Collect(Scanned(order, e), 1, fs, birth))],
        dirs |-> gd.dirs]

list_chats(order, birth, ds, fs, e) ==
  ListIn(get_chats_dir(ds, e), order, birth, ds, fs, e)

(***************************************************************************)
(* Inputs                                                                  *)
(***************************************************************************)
S_a == <<"a">>
S_b == <<"b">>
\* an id that leaves the store directory
S_up_a == <<".", ".", "/", "a">>
\* an id that names a subdirectory of the store
S_a_b == <<"a", "/", "b">>
\* an id that names the file of record "a" by another way
S_chats_a == <<".", ".", "/", "c", "h", "a", "t", "s", "/", "a">>
S_chat_1 == ChatPrefix \o <<"1">>
\* an id that names a file below the file of record "a"
S_a_json_x == <<"a", ".", "j", "s", "o", "n", "/", "x">>
\* an id with a NUL character in it
S_nul == <<"a", Nul, "b">>

Merge(o1, o2) ==
  [k \in (DOMAIN o1) \cup (DOMAIN o2) |->
     IF k \in DOMAIN o2 THEN o2[k] ELSE o1[k]]

Field(key, val) == MapInsert(EmptyMap, key, val)

\* the `id` member of a session passed to save: none, unusable, usable
IdParts ==
  {EmptyMap}
  \cup {Field(K_id, v) : v \in {JStr(<<>>), JNum(7), JStr(S_a),
                                JStr(S_up_a), JStr(S_a_b), JStr(S_chat_1),
                                JStr(S_a_json_x), JStr(S_nul),
                                JStr(S_chats_a)}}

\* the `timestamp` member of a session passed to save
TsParts == {EmptyMap, Field(K_timestamp, JNum(5))}

\* top-level values that are not objects
NonObjects == {JNull, JBool(TRUE), JNum(5), JStr(S_a), JArr(<<>>)}

Sessions ==
  {JObj(Merge(i, t)) : i \in IdParts, t \in TsParts} \cup NonObjects

\* the ids passed to load and delete
Ids == {S_a, S_b, S_up_a, S_chat_1, S_a_json_x, S_nul}

\* files put into the store directory by other means than save
ExternNames == {FileName(S_b)}
ExternContents == {to_string_pretty(JObj(Field(K_id, JStr(S_a)))), <<"{">>}

(***************************************************************************)
(* The commands as transitions.  `last` is the command that produced the   *)
(* current state, with its argument and the Result it returned.            *)
(***************************************************************************)
NoCall == [op |-> "none"]

\* the invocations that may overlap, and none of them in flight
Procs == {1, 2}
NoCalls == [p \in Procs |-> [pc |-> "idle"]]

Init ==
  /\ dirs \in {{Root}, {Root, AppDataDir}, {Root, AppDataDir, ChatsDir}}
  /\ files = [p \in {} |-> 0]
  /\ now = 1
  /\ env \in Envs
  /\ last = NoCall
  /\ calls = NoCalls

\* a command returns: the filesystem it leaves and its result
Returns(out, call) ==
  /\ dirs' = out.dirs
  /\ last' = [call EXCEPT !.res = out.res]
  /\ UNCHANGED <<now, env, calls>>

\* a step that leaves the files fs
FilesBecome(fs) ==
  /\ Cardinality(DOMAIN fs) <= MaxFiles
  /\ files' = fs

\* fs::write (lib.rs:39) is taken as one step here: the other writer of
\* these specifications, ExternWrite, writes no file that a save names, so
\* its steps commute with the two halves of fs::write.  SpecConcurrent
\* takes the halves apart.
SaveChat(session, birthtime) ==
  \E out \in {save_chat(session, dirs, files, env, now, birthtime)} :
    /\ FilesBecome(out.files)
    /\ Returns(out, [op |-> "save", session |-> session, res |-> NoCall])

ListChats(order, birth) ==
  \E out \in {list_chats(order, birth, dirs, files, env)} :
    /\ files' = files
    /\ Returns(out, [op |-> "list", birth |-> birth, res |-> NoCall])

LoadChat(id) ==
  \E out \in {load_chat(id, dirs, files, env)} :
    /\ files' = files
    /\ Returns(out, [op |-> "load", id |-> id, res |-> NoCall])

DeleteChat(id) ==
  \E out \in {delete_chat(id, dirs, files, env)} :
    /\ files' = out.files
    /\ Returns(out, [op |-> "delete", id |-> id, res |-> NoCall])

\* the clock advances between commands
Tick ==
  /\ now < MaxClock
  /\ now' = now + 1
  /\ last' = NoCall
  /\ UNCHANGED <<dirs, files, env, calls>>

\* another program writes a file into the store directory
ExternWrite(name, content, birthtime) ==
  /\ ChatsDir \in dirs
  /\ FilesBecome(fs_write([ok |-> TRUE, path |-> Append(ChatsDir, name)],
                          content, files, "ok", birthtime).files)
  /\ last' = NoCall
  /\ UNCHANGED <<dirs, now, env, calls>>

Next ==
  \/ \E session \in Sessions, birthtime \in CreationTimes :
       SaveChat(session, birthtime)
  \/ \E order \in Orders(Entries(files)), birth \in BOOLEAN :
       ListChats(order, birth)
  \/ \E id \in Ids : LoadChat(id)
  \/ \E id \in Ids : DeleteChat(id)
  \/ Tick
  \/ \E name \in ExternNames, content \in ExternContents,
          birthtime \in CreationTimes :
       ExternWrite(name, content, birthtime)

Spec == Init /\ [][Next]_vars

(***************************************************************************)
(* SpecList: list_chats over store directories of every shape.  The        *)
(* directory is drawn at the start (files of any name and content can be   *)
(* in it, however they got there) and then listed.                         *)
(***************************************************************************)
\* file contents
C_ts(id, n) ==
  to_string_pretty(JObj(Merge(Field(K_id, JStr(id)),
                              Field(K_timestamp, JNum(n)))))
\* an object without `id`
C_noId == to_string_pretty(JObj(Field(K_timestamp, JNum(300))))
\* an object without `timestamp`
C_noTs == to_string_pretty(JObj(Field(K_id, JStr(S_a))))
\* an object whose `timestamp` is not a number
C_tsStr == to_string_pretty(JObj(Field(K_timestamp, JStr(S_b))))
\* valid JSON that is not an object
C_num == <<"7">>
C_arr == to_string_pretty(JArr(<<JNum(1)>>))
C_null == <<"n", "u", "l", "l">>
C_true == <<"t", "r", "u", "e">>
C_text == Quote(S_a)
\* an object with a timestamp below zero
C_neg == to_string_pretty(JObj(Field(K_timestamp, JNum(0 - 1))))
\* an object whose `timestamp` is written with an exponent: 150
C_exp ==
  <<"{", "\"">> \o K_timestamp \o <<"\"", ":", "\t", "1", ".", "5", "e", "2", "}">>
\* an object whose `timestamp` has a fraction: 250.5
C_frac ==
  <<"{", "\"">> \o K_timestamp
  \o <<"\"", ":", "\r", "\n", "2", "5", "0", ".", "5", "0", "}">>
\* not JSON
C_corrupt == <<"{">>
\* not UTF-8
C_binary == <<InvalidByte>>

\* file names
N_a == FileName(S_a)
N_b == FileName(S_b)
N_c == FileName(<<"c">>)
\* a name whose stem is not valid UTF-8
N_raw == FileName(<<InvalidByte>>)
\* an extension that differs from "json" in case only
N_upper == <<"d", ".", "J", "S", "O", "N">>
\* a name with a leading dot only: no extension
N_dot == DotJson

Absent == [present |-> FALSE]
FilesOf(contents, times) ==
  {Absent} \cup {[present |-> TRUE, content |-> c, created |-> t] :
                   c \in contents, t \in times}

\* the store directory holding the chosen file (or none) under each name
Store(choice) ==
  [p \in {Append(ChatsDir, n) : n \in {m \in DOMAIN choice : choice[m].present}}
     |-> [content |-> choice[p[Len(p)]].content,
          created |-> choice[p[Len(p)]].created]]

InitList ==
  /\ dirs = {Root, AppDataDir, ChatsDir}
  /\ now = MaxClock
  /\ env = "ok"
  /\ last = NoCall
  /\ calls = NoCalls
  /\ \E fa \in FilesOf({C_ts(S_a, 100), C_noTs, C_corrupt},
                       {T_1001ms, T_today}),
        fb \in FilesOf({C_ts(S_a, 200), C_noId, C_tsStr, C_num, C_arr,
                        C_null, C_frac}, {T_1001ms}),
        fc \in FilesOf({C_ts(S_b, 100), C_noId, C_binary, C_true, C_text,
                        C_neg, C_exp}, {T_1001ms}),
        fr \in FilesOf({C_ts(S_a, 200)}, {T_1001ms}),
        fu \in FilesOf({C_ts(S_a, 300)}, {T_1001ms}),
        fd \in FilesOf({C_ts(S_a, 300)}, {T_1001ms}) :
       files = Store([n \in {N_a, N_b, N_c, N_raw, N_upper, N_dot} |->
                        CASE n = N_a -> fa [] n = N_b -> fb
                          [] n = N_c -> fc [] n = N_raw -> fr
                          [] n = N_upper -> fu [] OTHER -> fd])
  /\ Cardinality(DOMAIN files) <= MaxEntries

NextList ==
  \E order \in Orders(Entries(files)), birth \in BOOLEAN :
    ListChats(order, birth)

SpecList == InitList /\ [][NextList]_vars

(***************************************************************************)
(* SpecRoundTrip: save and load of sessions that carry every kind of       *)
(* JSON value (nesting, escapes, negative numbers, integers beyond 32      *)
(* bits, floats with fractions and exponents, the negative zero).          *)
(***************************************************************************)
K_m == <<"m">>

\* a text with a quote, a backslash, control characters and a character
\* beyond ASCII in it
S_special ==
  <<"a", "\"", "\\", "\n", " ", "\t", "\r", "U+0008", "U+001F", "U+00E9">>

\* 1.0000000000000001e-24, the f64 that from_str returns for "1e-24"
F_1em24 ==
  Float(FALSE, <<"1", "0", "0", "0", "0", "0", "0", "0", "0",
                 "0", "0", "0", "0", "0", "0", "0", "1">>, 0 - 40)

\* 1700000000000, a time in milliseconds
N_ms ==
  JInt(FALSE, <<"1", "7", "0", "0", "0", "0", "0", "0", "0", "0", "0", "0", "0">>)

RichValues ==
  { JNull, JBool(FALSE), JNum(0 - 12), JFloat(3), JStr(<<>>), JStr(S_special),
    Float(FALSE, <<"1", "5">>, 0 - 1), Float(TRUE, <<>>, 0),
    Float(FALSE, <<"1">>, 21), Float(TRUE, <<"2", "5">>, 0 - 8),
    Float(FALSE, <<"3">>, 23), F_1em24, N_ms,
    JArr(<<>>), JArr(<<JNum(1), JStr(S_a)>>), JObj(EmptyMap),
    JObj(Merge(Field(K_id, JNum(1)), Field(S_special, JNull))),
    JArr(<<JArr(<<JObj(Field(S_b, JArr(<<JBool(TRUE)>>)))>>), JNull>>) }

RichSessions ==
  {JObj(Merge(i, Field(K_m, v))) :
     i \in {EmptyMap, Field(K_id, JStr(S_a)), Field(K_id, JNum(7))},
     v \in RichValues}
  \cup {JObj(EmptyMap)}

InitRoundTrip ==
  /\ dirs = {Root}
  /\ files = [p \in {} |-> 0]
  /\ now = 1
  /\ env = "ok"
  /\ last = NoCall
  /\ calls = NoCalls

NextRoundTrip ==
  \/ \E session \in RichSessions, birthtime \in CreationTimes :
       SaveChat(session, birthtime)
  \/ \E id \in {S_a, S_chat_1} : LoadChat(id)

SpecRoundTrip == InitRoundTrip /\ [][NextRoundTrip]_vars

(***************************************************************************)
(* Properties                                                              *)
(***************************************************************************)
\* the session has a usable id: an `id` member that is a non-empty string
HasUsableId(session) ==
  /\ session.t = "obj"
  /\ K_id \in DOMAIN session.o
  /\ session.o[K_id].t = "str"
  /\ session.o[K_id].s # <<>>

\* what load(id) returns when issued in the current state
LoadNow(id) == load_chat(id, dirs, files, env).res

\* what list returns when issued in the current state
ListNow(order, birth) == list_chats(order, birth, dirs, files, env).res

\* the value is an object whose `id` member is the string id
HasId(v, id) == v.t = "obj" /\ K_id \in DOMAIN v.o /\ v.o[K_id] = JStr(id)

\* load(x) on the store (ds, fs) returns an object whose `id` is x
LoadsWithId(x, ds, fs, e) ==
  /\ load_chat(x, ds, fs, e).res.ok
  /\ HasId(load_chat(x, ds, fs, e).res.data, x)

\* the non-empty string ids given to save
GivenIds == {session.o[K_id].s : session \in {t \in Sessions : HasUsableId(t)}}

\* the step is a save or a delete of the id x
SaveOrDeleteOf(x) ==
  \/ last'.op = "save" /\ ResolveId(last'.session, now) = x
  \/ last'.op = "delete" /\ last'.id = x

\* the step is a write by another program
IsExternStep == last'.op = "none" /\ files' # files

\* C1: where the platform lets it write, a save of an object with a
\* non-empty string id x returns exactly x and load(x) then returns an
\* object whose id is x; and load(x) goes on returning an object whose id
\* is x through every later command that is not a save or a delete of x.
\* It fails for an id that is not a file-name stem: a/b names a directory
\* that does not exist, so save returns an error, and ../chats/a names the
\* file of record a, so a save of it changes what load(a) returns.
C1_SaveReturnsGivenId ==
  [][/\ (/\ last'.op = "save"
         /\ HasUsableId(last'.session)
         /\ env \in {"ok", "no_dir_read"}) =>
          /\ last'.res = [ok |-> TRUE, id |-> last'.session.o[K_id].s]
          /\ LoadsWithId(last'.session.o[K_id].s, dirs', files', env')
     /\ \A x \in GivenIds :
          (/\ LoadsWithId(x, dirs, files, env)
           /\ ~SaveOrDeleteOf(x)
           /\ ~IsExternStep) =>
            LoadsWithId(x, dirs', files', env')
    ]_vars

\* the string is "chat_" followed by the decimal digits of n
IsChatId(id, n) ==
  /\ Len(id) > Len(ChatPrefix)
  /\ SubSeq(id, 1, Len(ChatPrefix)) = ChatPrefix
  /\ \A i \in (Len(ChatPrefix) + 1)..Len(id) : IsDigit(id[i])
  /\ DigitsValue(id, Len(ChatPrefix) + 1, Len(id) + 1) = n

\* C2: a save of an object without a usable id (absent, empty, or not a
\* string) succeeds where the platform lets it write, returns
\* chat_<clock reading in ms>, and a load of the returned id returns an
\* object whose id is the returned id.
C2_SaveSynthesizesId ==
  (last.op = "save" /\ last.session.t = "obj" /\ ~HasUsableId(last.session)) =>
    /\ env \in {"ok", "no_dir_read"} => last.res.ok
    /\ last.res.ok =>
         /\ IsChatId(last.res.id, now)
         /\ LoadNow(last.res.id).ok
         /\ HasId(LoadNow(last.res.id).data, last.res.id)

C2_Witness ==
  /\ last.op = "save"
  /\ Index(last.session, K_id) = JNum(7)
  /\ last.res.ok
  /\ last.res.id = S_chat_1
  /\ HasId(LoadNow(S_chat_1).data, S_chat_1)

\* C3: round trip: after a successful save of S that returned r, load(r)
\* returns exactly S with its `id` member set to the string r.  It fails
\* for a float member whose shortest decimal from_str does not read back
\* as the same f64 (F_1em24, 3e23).
C3_RoundTrip ==
  (last.op = "save" /\ last.res.ok) =>
    LoadNow(last.res.id) =
      [ok |-> TRUE,
       data |-> JObj([k \in (DOMAIN last.session.o) \cup {K_id} |->
                        IF k = K_id THEN JStr(last.res.id)
                        ELSE last.session.o[k]])]

\* the records of a list result whose `id` is the string id
WithId(sessions, id) == {i \in DOMAIN sessions : HasId(sessions[i], id)}

\* the record list shows for a saved object: the object with its id set,
\* and a timestamp added when it has none and the platform knows file
\* creation times
ShownAs(session, id, shown) ==
  /\ shown.t = "obj"
  /\ (DOMAIN session.o) \cup {K_id} \subseteq DOMAIN shown.o
  /\ DOMAIN shown.o \subseteq (DOMAIN session.o) \cup {K_id, K_timestamp}
  /\ shown.o[K_id] = JStr(id)
  /\ \A k \in (DOMAIN session.o) \ {K_id} : shown.o[k] = session.o[k]

\* C4: save overwrites rather than duplicates: a list result never holds two
\* records with the same id, and after two successful saves with the same id
\* x in a row list holds exactly one record with id x, whose content is that
\* of the second save.
C4_SaveOverwrites ==
  [][/\ (last'.op = "list" /\ last'.res.ok) =>
          \A i, j \in DOMAIN last'.res.sessions :
            (/\ i # j
             /\ last'.res.sessions[i].t = "obj"
             /\ last'.res.sessions[j].t = "obj")
            => Index(last'.res.sessions[i], K_id)
                 # Index(last'.res.sessions[j], K_id)
     /\ (/\ env = "ok"
         /\ last.op = "save" /\ last.res.ok
         /\ last'.op = "save" /\ last'.res.ok
         /\ last'.res.id = last.res.id) =>
          \A order \in Orders(Entries(files')), birth \in BOOLEAN :
            LET l == list_chats(order, birth, dirs', files', env').res
            IN /\ l.ok
               /\ Cardinality(WithId(l.sessions, last'.res.id)) = 1
               /\ \A i \in WithId(l.sessions, last'.res.id) :
                    ShownAs(last'.session, last'.res.id, l.sessions[i])
    ]_vars

\* the file name is `<stem>.json` with a non-empty stem
HasJsonExtension(name) ==
  /\ Len(name) > Len(DotJson)
  /\ SubSeq(name, Len(name) - Len(DotJson) + 1, Len(name)) = DotJson

StemOf(name) == SubSeq(name, 1, Len(name) - Len(DotJson))

\* the file can be read as text and the text is JSON
ParsesAsJson(p) ==
  IsUtf8(files[p].content) /\ from_str(files[p].content).ok

Parsed(p) == from_str(files[p].content).v

\* a value without the members list may set: `id` and `timestamp`
Core(v) ==
  IF v.t = "obj"
  THEN JObj([k \in (DOMAIN v.o) \ {K_id, K_timestamp} |-> v.o[k]])
  ELSE v

\* C5: the file name is the identity in list: for every file f.json of the
\* store directory whose content parses as a JSON object, list returns a
\* record of that content whose id is f, whatever id the content holds.
C5_FilenameIsIdentity ==
  (last.op = "list" /\ last.res.ok) =>
    \A p \in Entries(files) :
      (/\ HasJsonExtension(p[Len(p)])
       /\ ParsesAsJson(p)
       /\ Parsed(p).t = "obj") =>
        \E i \in DOMAIN last.res.sessions :
          /\ HasId(last.res.sessions[i], StemOf(p[Len(p)]))
          /\ Core(last.res.sessions[i]) = Core(Parsed(p))

\* the effective timestamp of a listed element: the value of its numeric
\* `timestamp` member, 0 when it has none or it is not a number
EffectiveTimestamp(v) ==
  IF v.t = "obj" /\ K_timestamp \in DOMAIN v.o /\ v.o[K_timestamp].t = "num"
  THEN as_f64(v.o[K_timestamp])
  ELSE Zero

\* the effective timestamp of v is the integer n
TimestampIs(v, n) ==
  /\ ~F64Less(EffectiveTimestamp(v), as_f64(JNum(n)))
  /\ ~F64Less(as_f64(JNum(n)), EffectiveTimestamp(v))

\* C6: a list result is ordered descending by effective timestamp.
C6_ListSortedDescending ==
  (last.op = "list" /\ last.res.ok) =>
    \A i, j \in DOMAIN last.res.sessions :
      i < j => ~F64Less(EffectiveTimestamp(last.res.sessions[i]),
                        EffectiveTimestamp(last.res.sessions[j]))

\* records with timestamps 100, 300, 200 came back as 300, 200, 100
C6_Witness ==
  /\ last.op = "list"
  /\ last.res.ok
  /\ Len(last.res.sessions) = 3
  /\ TimestampIs(last.res.sessions[1], 300)
  /\ TimestampIs(last.res.sessions[2], 200)
  /\ TimestampIs(last.res.sessions[3], 100)
  /\ Cardinality(Entries(files)) = 3

\* the entries list has to show: extension json, readable, parseable
GoodEntries == {p \in Entries(files) : HasJsonExtension(p[Len(p)])
                                         /\ ParsesAsJson(p)}

\* C7: list is resilient to bad entries: it never fails because of them and
\* its result holds exactly one element for each entry with extension json
\* and readable, parseable content, and none for any other entry.
C7_ListSkipsBadEntries ==
  last.op = "list" =>
    /\ last.res.ok
    /\ Len(last.res.sessions) = Cardinality(GoodEntries)
    /\ \A p \in GoodEntries :
         Cardinality({i \in DOMAIN last.res.sessions :
                        Core(last.res.sessions[i]) = Core(Parsed(p))})
           = Cardinality({q \in GoodEntries : Core(Parsed(q)) = Core(Parsed(p))})

\* one corrupt file and two valid files: exactly the two valid records
C7_Witness ==
  /\ last.op = "list"
  /\ last.res.ok
  /\ Cardinality(Entries(files)) = 3
  /\ Cardinality(GoodEntries) = 2
  /\ \E p \in Entries(files) : files[p].content = C_corrupt
  /\ Len(last.res.sessions) = 2

\* C8: a save whose input is not a JSON object fails with the InvalidFormat
\* error, whatever the condition of the platform, and creates or changes no
\* directory and no file.
C8_InvalidFormatBeforeDisk ==
  [][(last'.op = "save" /\ last'.session.t # "obj") =>
       /\ last'.res = Err("Invalid session format", "")
       /\ dirs' = dirs
       /\ files' = files
    ]_vars

\* the file `<id>.json` of the store does not exist or cannot be read
Unreadable(id) ==
  ~read_to_string(ResolveJoin(ChatsDir, FileName(id),
                              dirs \cup {Root, AppDataDir, ChatsDir}),
                  files).ok

\* C9 as stated: load(id) of a file that does not exist or cannot be read
\* fails with the fixed message "Chat not found", without detail, and leaves
\* every file unchanged.
C9_LoadMissing_Original ==
  [][(last'.op = "load" /\ Unreadable(last'.id)) =>
       /\ last'.res = Err("Chat not found", "")
       /\ files' = files
    ]_vars

\* C9: when the store directory can be obtained, load(id) of a file that
\* does not exist or cannot be read fails with the fixed message "Chat not
\* found", without detail; when it cannot, load fails with the error of
\* get_chats_dir; either way every file is left unchanged.
C9_LoadMissing ==
  [][(last'.op = "load" /\ Unreadable(last'.id)) =>
       /\ last'.res = IF get_chats_dir(dirs, env).ok
                      THEN Err("Chat not found", "")
                      ELSE get_chats_dir(dirs, env)
       /\ files' = files
    ]_vars

C9_Witness ==
  /\ last.op = "load"
  /\ Unreadable(last.id)
  /\ last.res = Err("Chat not found", "")
  /\ DOMAIN files # {}

\* the file `<id>.json` of the store does not exist
Missing(id) ==
  LET r == ResolveJoin(ChatsDir, FileName(id),
                       dirs \cup {Root, AppDataDir, ChatsDir})
  IN ~r.ok \/ r.path \notin DOMAIN files

\* the details of errors that come from the platform
OsErrors ==
  {"ENOENT", "ENOTDIR", "EROFS", "NUL byte in file name", "unknown path"}

\* C10: delete(id) of a file that does not exist returns an I/O failure
\* error, and the files and their contents are the same after the call.
C10_DeleteMissing ==
  [][(last'.op = "delete" /\ Missing(last'.id)) =>
       /\ ~last'.res.ok
       /\ last'.res.err.detail \in OsErrors
       /\ files' = files
    ]_vars

C10_Witness ==
  /\ last.op = "delete"
  /\ Missing(last.id)
  /\ ~last.res.ok
  /\ last.res.err = [prefix |-> "", detail |-> "ENOENT"]
  /\ DOMAIN files # {}

(***************************************************************************)
(* delete: immediacy and frame                                             *)
(***************************************************************************)
\* SpecDelete: saves of a few records, loads, lists and deletes of them
DeleteSessions ==
  { JObj(Field(K_id, JStr(S_a))),
    JObj(Merge(Field(K_id, JStr(S_a)), Field(K_timestamp, JNum(5)))),
    JObj(Field(K_id, JStr(S_up_a))),
    JObj(EmptyMap) }

InitDelete ==
  /\ dirs = {Root}
  /\ files = [p \in {} |-> 0]
  /\ now = 1
  /\ env \in {"ok", "no_dir_read"}
  /\ last = NoCall
  /\ calls = NoCalls

NextDelete ==
  \/ \E session \in DeleteSessions, birthtime \in CreationTimes :
       SaveChat(session, birthtime)
  \/ \E order \in Orders(Entries(files)), birth \in BOOLEAN :
       ListChats(order, birth)
  \/ \E id \in Ids : LoadChat(id)
  \/ \E id \in Ids : DeleteChat(id)
  \/ Tick
  \/ \E name \in {N_b, N_raw}, content \in ExternContents,
          birthtime \in CreationTimes :
       ExternWrite(name, content, birthtime)

SpecDelete == InitDelete /\ [][NextDelete]_vars

\* the file that load(id) and delete(id) address
PathOf(id, ds) == ResolveJoin(ChatsDir, FileName(id), ds)

\* the record x is gone from the store (ds, fs): load(x) fails with the
\* NotFound error and no list result holds a record with id x
GoneIn(x, ds, fs, e) ==
  /\ load_chat(x, ds, fs, e).res = Err("Chat not found", "")
  /\ \A order \in Orders(Entries(fs)), birth \in BOOLEAN :
       /\ list_chats(order, birth, ds, fs, e).res.ok
       /\ WithId(list_chats(order, birth, ds, fs, e).res.sessions, x) = {}

Gone(x) == GoneIn(x, dirs, files, env)

\* the step is a successful save that writes the file of record x
SavesOver(x) ==
  /\ last'.op = "save"
  /\ last'.res.ok
  /\ PathOf(last'.res.id, dirs') = PathOf(x, dirs')

\* the sequence without the elements equal to x
Without(seq, x) == LET Keep(e) == e # x IN SelectSeq(seq, Keep)

\* the sessions without the records whose id is x
WithoutId(sessions, x) ==
  LET Keep(r) == ~HasId(r, x) IN SelectSeq(sessions, Keep)

\* C11: a successful delete(x) destroys the record at once and only that
\* record: right after it load(x) fails with "Chat not found" and list holds
\* no record with id x, every other file is unchanged, every other id loads
\* as before and list returns what it returned before without the record x;
\* and a record that is gone stays gone through every later command that is
\* not a save writing its file (Gone depends on the directories and files
\* only, so a step that changes neither keeps it).
C11_DeleteIsImmediate ==
  [][/\ (last'.op = "delete" /\ last'.res.ok) =>
          /\ GoneIn(last'.id, dirs', files', env')
          /\ PathOf(last'.id, dirs).ok
          /\ PathOf(last'.id, dirs).path \in DOMAIN files
          /\ DOMAIN files' = (DOMAIN files) \ {PathOf(last'.id, dirs).path}
          /\ \A p \in DOMAIN files' : files'[p] = files[p]
          /\ \A y \in Ids \ {last'.id} :
               load_chat(y, dirs', files', env').res = LoadNow(y)
          /\ \A order \in Orders(Entries(files)), birth \in BOOLEAN :
               list_chats(Without(order, PathOf(last'.id, dirs).path), birth,
                          dirs', files', env').res
                 = [ok |-> TRUE,
                    sessions |->
                      WithoutId(list_chats(order, birth, dirs, files, env)
                                  .res.sessions, last'.id)]
     /\ \A x \in Ids :
          (/\ <<dirs', files'>> # <<dirs, files>>
           /\ ~SavesOver(x)
           /\ ~IsExternStep
           /\ Gone(x)) =>
            GoneIn(x, dirs', files', env')
    ]_vars

(***************************************************************************)
(* list: failures of the directory                                         *)
(***************************************************************************)
\* C12: list never returns an error, and it returns the empty sequence when
\* the store directory is missing or cannot be obtained or scanned.
C12_ListDegradesGracefully ==
  [][last'.op = "list" =>
       /\ last'.res.ok
       /\ (ChatsDir \notin dirs \/ env \in {"no_data_dir", "no_dir_read"}) =>
            last'.res.sessions = <<>>
    ]_vars

(***************************************************************************)
(* load returns the file as it is                                          *)
(***************************************************************************)
P_b == Append(ChatsDir, N_b)

\* the store holds b.json with the content {"id": "a"}
HoldsForeignId == P_b \in DOMAIN files /\ files[P_b].content = C_noTs

\* C13: load applies no repair: while b.json holds an object with id "a" and
\* no timestamp, load("b") returns exactly that object (id "a", no
\* timestamp), whatever command ran before, and every list that scans the
\* directory reports that file as one record with id "b" (and with a
\* timestamp when the platform knows creation times).
C13_LoadIsVerbatim ==
  HoldsForeignId =>
    /\ env # "no_data_dir" =>
         LoadNow(S_b) = [ok |-> TRUE, data |-> JObj(Field(K_id, JStr(S_a)))]
    /\ env \in {"ok", "read_only"} =>
         \A order \in Orders(Entries(files)), birth \in BOOLEAN :
           /\ ListNow(order, birth).ok
           /\ Cardinality(WithId(ListNow(order, birth).sessions, S_b)) = 1
           /\ \A i \in WithId(ListNow(order, birth).sessions, S_b) :
                (K_timestamp \in DOMAIN ListNow(order, birth).sessions[i].o)
                  = birth
    /\ (last.op = "list" /\ env \in {"ok", "read_only"}) =>
         /\ last.res.ok
         /\ Cardinality(WithId(last.res.sessions, S_b)) = 1
    /\ (last.op = "load" /\ last.id = S_b /\ env # "no_data_dir") =>
         last.res = [ok |-> TRUE, data |-> JObj(Field(K_id, JStr(S_a)))]

\* load("b") has just returned the stored object with id "a"
C13_Witness ==
  /\ HoldsForeignId
  /\ last.op = "load"
  /\ last.id = S_b
  /\ last.res.ok
  /\ last.res.data = JObj(Field(K_id, JStr(S_a)))
  /\ \E order \in Orders(Entries(files)) :
       WithId(ListNow(order, TRUE).sessions, S_b) # {}

(***************************************************************************)
(* Frame: which files a command changes                                    *)
(***************************************************************************)
\* every file other than the one at path r is the same before and after
OnlyChanges(r) ==
  /\ (DOMAIN files') \ {r.path} = (DOMAIN files) \ {r.path}
  /\ \A p \in (DOMAIN files) \ {r.path} : files'[p] = files[p]

\* C14: a command changes at most one file: a save that returns id x creates
\* or replaces only the file `<store>/x.json`, a delete(x) that succeeds
\* removes only `<store>/x.json`, a save or delete that fails and every list
\* and load change no file at all.
C14_OneFilePerCommand ==
  [][/\ last'.op \in {"list", "load"} => files' = files
     /\ (last'.op \in {"save", "delete"} /\ ~last'.res.ok) => files' = files
     /\ (last'.op = "save" /\ last'.res.ok) =>
          /\ PathOf(last'.res.id, dirs').ok
          /\ OnlyChanges(PathOf(last'.res.id, dirs'))
          /\ PathOf(last'.res.id, dirs').path \in DOMAIN files'
     /\ (last'.op = "delete" /\ last'.res.ok) =>
          /\ PathOf(last'.id, dirs').ok
          /\ OnlyChanges(PathOf(last'.id, dirs'))
          /\ PathOf(last'.id, dirs').path \notin DOMAIN files'
    ]_vars

\* delete(chat_1) has removed its file and another file is still there
C14_Witness ==
  /\ last.op = "delete"
  /\ last.res.ok
  /\ last.id = S_chat_1
  /\ PathOf(S_chat_1, dirs).path \notin DOMAIN files
  /\ DOMAIN files # {}

(***************************************************************************)
(* The ids list reports                                                    *)
(***************************************************************************)
\* the entry p is the file from which list built the record r
Produces(p, r) == ReadEntry(p, files, last.birth) = [some |-> TRUE, data |-> r]

\* id is a handle for the file p: load(id) returns the content of p and
\* delete(id) succeeds and removes p and nothing else
IsHandleFor(id, p) ==
  /\ LoadNow(id) = [ok |-> TRUE, data |-> Parsed(p)]
  /\ delete_chat(id, dirs, files, env).res = [ok |-> TRUE]
  /\ delete_chat(id, dirs, files, env).files
       = [q \in (DOMAIN files) \ {p} |-> files[q]]

\* C15: every id list reports is a valid handle for the file it came from:
\* each object record r of a list result has a string id, and right after
\* the list load(r.id) returns the content of the file that produced r and
\* delete(r.id) succeeds and removes exactly that file.
C15_ListedIdsAreHandles ==
  (last.op = "list" /\ last.res.ok) =>
    \A i \in DOMAIN last.res.sessions :
      last.res.sessions[i].t = "obj" =>
        \A p \in Entries(files) :
          Produces(p, last.res.sessions[i]) =>
            /\ IsString(Index(last.res.sessions[i], K_id))
            /\ IsHandleFor(Index(last.res.sessions[i], K_id).s, p)

(***************************************************************************)
(* The id returned by save and the file stem                               *)
(***************************************************************************)
\* the store (ds, fs) holds the record x: a file of the store directory has
\* the name stem x and every list holds a record with id x
HeldIn(x, ds, fs, e) ==
  /\ \E p \in Entries(fs) :
       HasJsonExtension(p[Len(p)]) /\ StemOf(p[Len(p)]) = x
  /\ \A order \in Orders(Entries(fs)), birth \in BOOLEAN :
       /\ list_chats(order, birth, ds, fs, e).res.ok
       /\ WithId(list_chats(order, birth, ds, fs, e).res.sessions, x) # {}

\* C16: where the directory can be scanned, after a successful save with a
\* non-empty string id x the call has returned x, a file of the store
\* directory has the name stem x and list holds a record with id x; and this
\* stays so through every later command that is not a delete of x.
C16_IdIsFileStem ==
  [][env # "no_dir_read" =>
       /\ (last'.op = "save" /\ HasUsableId(last'.session) /\ last'.res.ok) =>
            /\ last'.res.id = last'.session.o[K_id].s
            /\ HeldIn(last'.res.id, dirs', files', env')
       /\ \A x \in Ids :
            (/\ <<dirs', files'>> # <<dirs, files>>
             /\ ~(last'.op = "delete" /\ last'.id = x)
             /\ ~IsExternStep
             /\ HeldIn(x, dirs, files, env)) =>
              HeldIn(x, dirs', files', env')
    ]_vars

(***************************************************************************)
(* SpecConcurrent: two save_chat invocations that overlap.  No lock is     *)
(* taken, so the steps of the two interleave freely.  fs::write            *)
(* (lib.rs:39) is File::create, which opens the file and truncates it,     *)
(* followed by write_all at the start of the file through the handle.      *)
(***************************************************************************)
\* bytes written at offset 0 replace what is there and leave the rest
Overwritten(old, new) == new \o SubSeq(old, Len(new) + 1, Len(old))

\* the content of a file after the bytes of a text are written at offset 0
WriteAt0(old, content) == StringOf(Overwritten(Bytes(old), Bytes(content)))

\* write_all through a handle whose position is the start of the file
write_all(path, content, fs) ==
  [fs EXCEPT ![path].content = WriteAt0(@, content)]

\* lines 24-38: the id, the path and the text, or the error returned
Begun(gd, session, id) ==
  IF ~gd.ok THEN [pc |-> "done", res |-> gd]
  ELSE IF session.t # "obj"
  THEN [pc |-> "done", res |-> Err("Invalid session format", "")]
  ELSE [pc |-> "open", id |-> id,
        path |-> ResolveJoin(ChatsDir, FileName(id), gd.dirs),
        content |-> SessionContent(session, id)]

DirsAfter(gd, ds) == IF gd.ok THEN gd.dirs ELSE ds

SaveBegin(p) ==
  /\ calls[p].pc = "start"
  /\ calls' = [calls EXCEPT ![p] = Begun(get_chats_dir(dirs, env),
                                         calls[p].session,
                                         ResolveId(calls[p].session, now))]
  /\ dirs' = DirsAfter(get_chats_dir(dirs, env), dirs)
  /\ UNCHANGED <<files, now, env, last>>

\* File::create: the file made (empty, with the creation time the
\* filesystem records) or the existing one emptied, or the error
\* (fs_write with nothing to write)
File_create(r, fs, e, birthtime) == fs_write(r, <<>>, fs, e, birthtime)

\* the invocation after File::create has returned w
Opened(call, w) ==
  IF w.ok THEN [call EXCEPT !.pc = "write"] ELSE [pc |-> "done", res |-> w]

\* line 39, first half: File::create
SaveOpen(p, birthtime) ==
  /\ calls[p].pc = "open"
  /\ files' = IF File_create(calls[p].path, files, env, birthtime).ok
              THEN File_create(calls[p].path, files, env, birthtime).files
              ELSE files
  /\ calls' = [calls EXCEPT ![p] =
                 Opened(@, File_create(calls[p].path, files, env, birthtime))]
  /\ UNCHANGED <<dirs, now, env, last>>

\* line 39, second half, and line 41: the text is written and Ok(id) returned
SaveWrite(p) ==
  /\ calls[p].pc = "write"
  /\ files' = write_all(calls[p].path.path, calls[p].content, files)
  /\ calls' = [calls EXCEPT ![p] = [pc |-> "done", id |-> calls[p].id,
                                    path |-> calls[p].path,
                                    content |-> calls[p].content,
                                    res |-> [ok |-> TRUE, id |-> calls[p].id]]]
  /\ UNCHANGED <<dirs, now, env, last>>

\* a string of one and of three characters of two bytes each
S_e1 == <<"U+00E9">>
S_e3 == <<"U+00E9", "U+00E9", "U+00E9">>

\* the sessions saved at the same time
ConcurrentSessions ==
  { JObj(Field(K_id, JStr(S_a))),
    JObj(Merge(Field(K_id, JStr(S_a)), Field(<<"a">>, JStr(S_e1)))),
    JObj(Merge(Field(K_id, JStr(S_a)), Field(<<"Z">>, JStr(S_e3)))),
    JObj(Merge(Field(K_id, JStr(S_a)), Field(K_timestamp, JNum(5)))),
    JObj(EmptyMap),
    JObj(Field(K_timestamp, JNum(5))) }

InitConcurrent ==
  /\ dirs \in {{Root}, {Root, AppDataDir, ChatsDir}}
  /\ files = [p \in {} |-> 0]
  /\ now = 1
  /\ env \in {"ok", "read_only"}
  /\ last = NoCall
  /\ calls \in [Procs -> {[pc |-> "start", session |-> session] :
                            session \in ConcurrentSessions}]

NextConcurrent ==
  \/ \E p \in Procs : SaveBegin(p)
  \/ \E p \in Procs, birthtime \in CreationTimes : SaveOpen(p, birthtime)
  \/ \E p \in Procs : SaveWrite(p)
  \/ Tick

SpecConcurrent == InitConcurrent /\ [][NextConcurrent]_vars

\* both invocations have returned from a save to the same id
BothSavedSameId ==
  /\ \A p \in Procs : calls[p].pc = "done" /\ calls[p].res.ok
  /\ calls[1].id = calls[2].id

\* the files of the store directory whose name stem is id
FilesOfId(id) ==
  {q \in Entries(files) :
     HasJsonExtension(q[Len(q)]) /\ StemOf(q[Len(q)]) = id}

\* C17: once two overlapping saves to the same id have both returned, both
\* have returned that id, the store holds exactly one file for the id, and
\* the content of the file is exactly the text written by one of the two.
C17_ConcurrentSavesLastWriterWins ==
  BothSavedSameId =>
    /\ \A p \in Procs : calls[p].res.id = calls[1].id
    /\ Cardinality(FilesOfId(calls[1].id)) = 1
    /\ \A q \in FilesOfId(calls[1].id) :
         files[q].content \in {calls[p].content : p \in Procs}

(***************************************************************************)
(* list: files that hold JSON other than an object                         *)
(***************************************************************************)
\* the entries list shows whose content is JSON but not an object
NonObjectEntries == {p \in GoodEntries : Parsed(p).t # "obj"}

\* the positions of a list result that hold the value v
PositionsOf(sessions, v) == {i \in DOMAIN sessions : sessions[i] = v}

\* C18: list never fails on a file that holds JSON other than an object: its
\* result holds the parsed value itself, once for each such file, with no id
\* or timestamp added, and the value is ordered as timestamp 0: no element
\* before it has a timestamp below 0 and none after it has one above 0.
C18_ListKeepsNonObjects ==
  last.op = "list" =>
    /\ last.res.ok
    /\ \A p \in NonObjectEntries :
         /\ Cardinality(PositionsOf(last.res.sessions, Parsed(p)))
              = Cardinality({q \in NonObjectEntries : Parsed(q) = Parsed(p)})
         /\ \A i \in PositionsOf(last.res.sessions, Parsed(p)) :
              \A j \in DOMAIN last.res.sessions :
                /\ j < i =>
                     ~F64Less(EffectiveTimestamp(last.res.sessions[j]), Zero)
                /\ j > i =>
                     ~F64Less(Zero, EffectiveTimestamp(last.res.sessions[j]))

\* the number 7 is listed between a record with timestamp 100 and one with
\* timestamp -1
C18_Witness ==
  /\ last.op = "list"
  /\ last.res.ok
  /\ Len(last.res.sessions) = 3
  /\ TimestampIs(last.res.sessions[1], 100)
  /\ last.res.sessions[2] = JNum(7)
  /\ TimestampIs(last.res.sessions[3], 0 - 1)
  /\ Cardinality(NonObjectEntries) = 1

(***************************************************************************)
(* load of a file that is not JSON                                         *)
(***************************************************************************)
\* load(id) reaches a file that it can read and that does not parse
Corrupt(id) ==
  /\ get_chats_dir(dirs, env).ok
  /\ PathOf(id, dirs).ok
  /\ PathOf(id, dirs).path \in DOMAIN files
  /\ IsUtf8(files[PathOf(id, dirs).path].content)
  /\ ~from_str(files[PathOf(id, dirs).path].content).ok

\* C19: load(id) of a file that exists, can be read and is not valid JSON
\* fails with the message of the parser and no fixed text, which is not the
\* "Chat not found" error; the files are the same after the call, and no list
\* issued after it shows a record for the file.
C19_LoadCorrupt ==
  [][(last'.op = "load" /\ Corrupt(last'.id)) =>
       /\ ~last'.res.ok
       /\ last'.res.err = [prefix |-> "", detail |-> "expected value"]
       /\ last'.res # Err("Chat not found", "")
       /\ files' = files
       /\ \A order \in Orders(Entries(files')), birth \in BOOLEAN :
            /\ list_chats(order, birth, dirs', files', env').res.ok
            /\ WithId(list_chats(order, birth, dirs', files', env')
                        .res.sessions, last'.id) = {}
            /\ Len(list_chats(order, birth, dirs', files', env')
                     .res.sessions) < Cardinality(Entries(files'))
    ]_vars

\* load("b") has just failed on b.json, which holds "{"
C19_Witness ==
  /\ last.op = "load"
  /\ last.id = S_b
  /\ P_b \in DOMAIN files
  /\ files[P_b].content = C_corrupt
  /\ last.res = Err("", "expected value")

(***************************************************************************)
(* The synthesized id                                                      *)
(***************************************************************************)
\* the id synthesized at clock reading t
ChatIdAt(t) == ChatPrefix \o Decimal(t)

\* the step is a successful save of an object without a usable id
SavesWithoutId ==
  /\ last'.op = "save"
  /\ last'.session.t = "obj"
  /\ ~HasUsableId(last'.session)
  /\ last'.res.ok

\* every list of the store after the step holds exactly one record with id
ListsOnce(id) ==
  \A order \in Orders(Entries(files')), birth \in BOOLEAN :
    /\ list_chats(order, birth, dirs', files', env').res.ok
    /\ Cardinality(WithId(list_chats(order, birth, dirs', files', env')
                            .res.sessions, id)) = 1

\* C20: the synthesized id is a function of the clock reading alone.  A save
\* of an object without a usable id returns chat_<reading>.  When the save
\* before it, at the same reading, returned that id (synthesized, or given
\* explicitly as chat_<reading>), the second save overwrites: no file is
\* added, load returns the second object and list holds one record for the
\* id.  A record chat_<other reading> is another file, which stays as it is,
\* and list then holds one record for each of the two ids.
C20_SynthesizedIdFromClock ==
  [][SavesWithoutId =>
       /\ last'.res.id = ChatIdAt(now)
       /\ (last.op = "save" /\ last.res.ok /\ last.res.id = ChatIdAt(now)) =>
            /\ DOMAIN files' = DOMAIN files
            /\ load_chat(ChatIdAt(now), dirs', files', env').res
                 = [ok |-> TRUE,
                    data |-> JObj(MapInsert(last'.session.o, K_id,
                                            JStr(ChatIdAt(now))))]
            /\ env = "ok" => ListsOnce(ChatIdAt(now))
       /\ \A t \in (1..MaxClock) \ {now} :
            (/\ PathOf(ChatIdAt(t), dirs).ok
             /\ PathOf(ChatIdAt(t), dirs).path \in DOMAIN files) =>
              /\ PathOf(ChatIdAt(t), dirs') # PathOf(ChatIdAt(now), dirs')
              /\ files'[PathOf(ChatIdAt(t), dirs).path]
                   = files[PathOf(ChatIdAt(t), dirs).path]
              /\ PathOf(ChatIdAt(now), dirs').path \in DOMAIN files'
              /\ env = "ok" => ListsOnce(ChatIdAt(t)) /\ ListsOnce(ChatIdAt(now))
    ]_vars

\* a save without id at reading 2 has returned chat_2 while the record
\* chat_1 of reading 1 is still there
C20_Witness ==
  /\ last.op = "save"
  /\ ~HasUsableId(last.session)
  /\ last.res.ok
  /\ now = 2
  /\ last.res.id = ChatIdAt(2)
  /\ PathOf(ChatIdAt(1), dirs).path \in DOMAIN files
  /\ PathOf(ChatIdAt(2), dirs).path \in DOMAIN files

====
